---- MODULE Spec2Model ----
(***************************************************************************)
(* Model of the Vulkan samples of this repository.                         *)
(*                                                                         *)
(*   Spec       the multi-threaded renderer of                             *)
(*              test04/source/vulkanchromedemo.cpp: VulkanExample::render,  *)
(*              draw, updateCommandBuffers and threadRenderCode, with the   *)
(*              worker threads of the thread pool and the device that       *)
(*              signals renderFence.                                        *)
(*   SpecSetup  surface and swapchain set-up: VulkanSwapChain::initSurface  *)
(*              and create of test04/source/VulkanSwapChain.hpp, and        *)
(*              sample_main of test03/source/test1.cpp.                     *)
(*   SpecSelect the present mode and the image count that create and        *)
(*              sample_main ask for, over every report of the surface.      *)
(*   SpecLife   the swapchain in use: create, acquireNextImage,             *)
(*              queuePresent, create again and cleanup of                   *)
(*              test04/source/VulkanSwapChain.hpp on a surface that can be  *)
(*              resized.                                                    *)
(*   SpecRecord one call of updateCommandBuffers with the worker threads    *)
(*              scheduled fairly.                                           *)
(*   SpecScene  the Scene of test04/source/vulkanchromedemo.cpp:            *)
(*              loadMaterials, loadMeshes, render, and the keys that        *)
(*              select what render draws.                                   *)
(*                                                                         *)
(* Vulkan enumerators are modelled by their names (strings). A failed      *)
(* assert and a failed VK_CHECK_RESULT end the process (variable fatal).    *)
(***************************************************************************)
EXTENDS Integers, Sequences, FiniteSets, TLC

(***************************************************************************)
(* Bounds of the model.                                                    *)
(***************************************************************************)
\* std::thread::hardware_concurrency() ranges over 1..MaxThreads
MaxThreads == 2
\* the object total the workers share (1024 in the source), scaled down
TotalObjects == 5
\* the device reports 1..MaxFamilies queue families
MaxFamilies == 2
\* the surface reports 0..MaxFormats surface formats
MaxFormats == 2
\* widths and heights range over 1..MaxExtent
MaxExtent == 2
\* a swapchain has 1..MaxImages images
MaxImages == 2
\* VulkanSwapChain::create is called at most MaxCreates times
MaxCreates == 2
\* the surface reports 0..MaxModes present modes
MaxModes == 3
\* a scene file has 1..MaxMaterials materials
MaxMaterials == 2
\* a scene file has 1..MaxMeshes meshes
MaxMeshes == 2

\* UINT32_MAX, (uint32_t)-1, 0xFFFFFFFF: no index or size of the model reaches it
UINT32_MAX == -1

VK_NULL_HANDLE == 0

VARIABLES
    \* ---- renderer (vulkanchromedemo.cpp) ----
    numThreads,       \* VulkanExample::numThreads
    pc,               \* position of the primary thread in render()/draw()
    loopT, loopI,     \* the loop variables t, i of updateCommandBuffers
    jobQueue,         \* jobQueue[t]: worker t's private queue of slots to record
    wpc,              \* wpc[t]: position of worker t inside threadRenderCode
    visible,          \* threadData[t].objectData[i].visible
    frustum,          \* the objects frustum.checkSphere reports visible
    commandBuffers,   \* the local list commandBuffers of updateCommandBuffers
    executed,         \* the list handed to vkCmdExecuteCommands in this frame
    tested,           \* what this frame's task for (t, i) reported
    renderFence,      \* "unsignaled" | "signaled"
    gpuBusy,          \* the device still executes the submitted primary buffer
    submitState,      \* "none" | "pending" | "waited": the last primary submission
    failedCall,       \* the call of this frame that returned a failure, or "none"
    taskLog,          \* per object, in this frame: jobs added, started, finished,
                      \* and recordings of its command buffer begun and ended
    \* ---- surface and swapchain set-up (VulkanSwapChain.hpp, test1.cpp) ----
    prog,             \* "VulkanSwapChain" | "sample_main" | "renderer"
    spc,              \* position of the set-up code
    queueProps,       \* queueProps / supportsPresent as last reported
    graphicsQueueNodeIndex,  \* also info.graphics_queue_family_index
    presentQueueNodeIndex,   \* also info.present_queue_family_index
    queueNodeIndex,   \* VulkanSwapChain::queueNodeIndex
    surfaceFormats,   \* the surface formats as last reported
    colorFormat,      \* VulkanSwapChain::colorFormat, info.format
    colorSpace,       \* VulkanSwapChain::colorSpace
    surfCaps,         \* the surface capabilities as last reported
    width, height,    \* the caller's width and height (info.width, info.height)
    requested,        \* the width and height the running create was asked for
    swapchainCI,      \* the VkSwapchainCreateInfoKHR of the running create
    oldSwapchain,     \* the local oldSwapchain of create
    swapChain,        \* VulkanSwapChain::swapChain, info.swap_chain
    imageCount,       \* VulkanSwapChain::imageCount, info.swapchainImageCount
    buffers,          \* buffers[k].view: the image views, in order
    viewIndex,        \* the loop variable i of the view-creation loop
    liveSwapchains,   \* device: swapchain handles created and not destroyed
    liveViews,        \* device: image views created and not destroyed
    creates,          \* number of swapchain handles created so far
    presentModes,     \* the present modes the surface reports
    vsync,            \* the vsync argument the caller passes to create
    surfCounts,       \* <<minImageCount, maxImageCount>> the surface reports
    surface,          \* VulkanSwapChain::surface
    liveSurface,      \* device: the surface exists
    surfaceNow,       \* the capabilities the surface has now, where they are followed
    lastCall,         \* "none" | "acquire" | "present": the caller's last frame call
    driverStatus,     \* what fpAcquireNextImageKHR / fpQueuePresentKHR returned last
    lastResult,       \* what acquireNextImage / queuePresent returned to the caller
    lastArgs,         \* width, height and capabilities of the last create and the
                      \* call and result that preceded it, where they are followed
    repeatCall,       \* the running create repeats the one before: same arguments,
                      \* same reports of the surface, no call in between
    \* ---- Scene of test04/source/vulkanchromedemo.cpp ----
    scenePc,          \* "off" | "loadMaterials" | "loadMeshes" | "build" | "ready"
    materials,        \* sequence of [name, pipeline], as read from the scene file
    meshes,           \* meshes[i + 1] = index of the material of mesh i
    renderSingleScenePart,
    scenePartIndex,
    bgMeshIds,        \* the three vectors of the last Scene::render
    alphaMeshIds,
    nonAlphaMeshIds,
    drawn,            \* mesh ids in the order of the RenderMesh calls of the last render
    \* ---- both ----
    fatal             \* the process has been terminated

frameVars == <<numThreads, pc, loopT, loopI, jobQueue, wpc, visible, frustum,
               commandBuffers, executed, tested, renderFence, gpuBusy,
               submitState, failedCall, taskLog>>

setupVars == <<prog, spc, queueProps, graphicsQueueNodeIndex, presentQueueNodeIndex,
               queueNodeIndex, surfaceFormats, colorFormat, colorSpace, surfCaps,
               width, height, requested, swapchainCI, oldSwapchain, swapChain,
               imageCount, buffers, viewIndex, liveSwapchains, liveViews, creates,
               presentModes, vsync, surfCounts, surface, liveSurface, surfaceNow,
               lastCall, driverStatus, lastResult, lastArgs, repeatCall>>

repeatVars == <<lastArgs, repeatCall>>

reportVars == <<presentModes, vsync, surfCounts>>

surfaceVars == <<surface, liveSurface, surfaceNow>>

callVars == <<lastCall, driverStatus, lastResult>>

queueVars == <<queueProps, graphicsQueueNodeIndex, presentQueueNodeIndex, queueNodeIndex>>

formatVars == <<surfaceFormats, colorFormat, colorSpace>>

extentVars == <<surfCaps, width, height, requested, swapchainCI>>

handleVars == <<oldSwapchain, swapChain, imageCount, buffers, viewIndex,
                liveSwapchains, liveViews, creates>>

sceneVars == <<scenePc, materials, meshes, renderSingleScenePart, scenePartIndex,
               bgMeshIds, alphaMeshIds, nonAlphaMeshIds, drawn>>

vars == <<frameVars, setupVars, sceneVars, fatal>>

(***************************************************************************)
(* Renderer: static partition of the objects                               *)
(***************************************************************************)
\* numObjectsPerThread without the division by numThreads
numObjectsPerThreadUndivided == TotalObjects

\* numObjectsPerThread = 1024 / numThreads
numObjectsPerThread == TotalObjects \div numThreads

Threads == 0 .. numThreads - 1

Slots == 0 .. numObjectsPerThread - 1

Objects == Threads \X Slots

VkResults == {"VK_SUCCESS", "VK_ERROR_DEVICE_LOST"}

\* VK_CHECK_RESULT letting every result pass
VK_CHECK_RESULT_Off(res) == TRUE

\* VK_CHECK_RESULT(f): the call passes the check
VK_CHECK_RESULT(res) == res = "VK_SUCCESS"

\* the failure noted for call f returning res: its name when res is an error code
Failed(f, res) == IF res \in {"VK_SUCCESS", "VK_TIMEOUT"} THEN failedCall ELSE f

\* frustum.checkSphere(objectData->pos, objectSphereDim * 0.5f) for object (t, i)
checkSphere(t, i) == <<t, i>> \in frustum

(***************************************************************************)
(* Renderer: the loops over (worker t, slot i) of updateCommandBuffers     *)
(***************************************************************************)
\* for (t = 0; t < numThreads; t++) for (i = 0; i < numObjectsPerThread; i++)
LoopStart == IF numObjectsPerThread > 0 THEN <<0, 0>> ELSE <<numThreads, 0>>

\* the loops going from one worker to the next after its first slot
LoopNextFirstSlot(t, i) == <<t + 1, 0>>

LoopNext(t, i) == IF i + 1 < numObjectsPerThread THEN <<t, i + 1>> ELSE <<t + 1, 0>>

LoopDone(t) == t >= numThreads

\* Thread::wait of every thread of the pool: the queue is empty
ThreadPoolIdle == \A t \in Threads : jobQueue[t] = <<>>

\* no job added, started or finished and no buffer recorded yet
NoTasks == [o \in Objects |-> [added |-> 0, started |-> 0, finished |-> 0, recorded |-> 0]]

\* the log after one more event of kind f for object o
Logged(o, f) == [taskLog EXCEPT ![o][f] = @ + 1]

\* threadRenderCode(0, i, ...): every job working on the data of worker 0
JobTargetFirstWorker(t, i) == <<0, i>>

\* [=] { threadRenderCode(t, i, inheritanceInfo); }: the thread data and the slot
\* that the job put on queue t for slot i works on
JobTarget(t, i) == <<t, i>>

FrameInit ==
    /\ numThreads \in 1 .. MaxThreads
    /\ pc = "prepareFrame"
    /\ loopT = 0
    /\ loopI = 0
    /\ jobQueue = [t \in Threads |-> <<>>]
    /\ wpc = [t \in Threads |-> "idle"]
    /\ visible = [o \in Objects |-> TRUE]
    /\ frustum \in SUBSET Objects
    /\ commandBuffers = <<>>
    /\ executed = <<>>
    /\ tested = [o \in Objects |-> "none"]
    /\ renderFence = "unsignaled"
    /\ gpuBusy = FALSE
    /\ submitState = "none"
    /\ failedCall = "none"
    /\ taskLog = NoTasks

\* VulkanExampleBase::prepareFrame(): acquires the next swapchain image
PrepareFrame ==
    /\ ~fatal
    /\ UNCHANGED <<setupVars, sceneVars>>
    /\ pc = "prepareFrame"
    /\ pc' = "beginPrimary"
    /\ UNCHANGED <<numThreads, taskLog, loopT, loopI, jobQueue, wpc, visible, frustum,
                   commandBuffers, executed, tested, renderFence, gpuBusy,
                   submitState, failedCall, fatal>>

\* updateCommandBuffers: vkBeginCommandBuffer(primaryCommandBuffer), begin of the
\* render pass, the empty list commandBuffers
BeginPrimary ==
    /\ ~fatal
    /\ UNCHANGED <<setupVars, sceneVars>>
    /\ pc = "beginPrimary"
    /\ \E res \in VkResults :
         /\ failedCall' = Failed("vkBeginCommandBuffer(primaryCommandBuffer)", res)
         /\ IF VK_CHECK_RESULT(res)
            THEN /\ pc' = "dispatch"
                 /\ loopT' = LoopStart[1]
                 /\ loopI' = LoopStart[2]
                 /\ commandBuffers' = <<>>
                 /\ executed' = <<>>
                 /\ tested' = [o \in Objects |-> "none"]
                 /\ taskLog' = NoTasks
                 /\ UNCHANGED fatal
            ELSE /\ fatal' = TRUE
                 /\ UNCHANGED <<pc, loopT, loopI, commandBuffers, executed, tested,
                                taskLog>>
    /\ UNCHANGED <<numThreads, jobQueue, wpc, visible, frustum, renderFence,
                   gpuBusy, submitState>>

\* threadPool.threads[t]->addJob([=] { threadRenderCode(t, i, inheritanceInfo); })
Dispatch ==
    /\ ~fatal
    /\ UNCHANGED <<setupVars, sceneVars>>
    /\ pc = "dispatch"
    /\ IF LoopDone(loopT)
       THEN /\ pc' = "wait"
            /\ UNCHANGED <<jobQueue, loopT, loopI, taskLog>>
       ELSE /\ jobQueue' = [jobQueue EXCEPT ![loopT] = Append(@, loopI)]
            /\ taskLog' = Logged(JobTarget(loopT, loopI), "added")
            /\ loopT' = LoopNext(loopT, loopI)[1]
            /\ loopI' = LoopNext(loopT, loopI)[2]
            /\ pc' = IF LoopDone(loopT') THEN "wait" ELSE "dispatch"
    /\ UNCHANGED <<numThreads, wpc, visible, frustum, commandBuffers, executed,
                   tested, renderFence, gpuBusy, submitState, failedCall, fatal>>

\* Wait without the join: the primary thread goes on while jobs are queued
WaitNoJoin ==
    /\ ~fatal
    /\ UNCHANGED <<setupVars, sceneVars>>
    /\ pc = "wait"
    /\ pc' = "assemble"
    /\ loopT' = LoopStart[1]
    /\ loopI' = LoopStart[2]
    /\ UNCHANGED <<numThreads, taskLog, jobQueue, wpc, visible, frustum, commandBuffers,
                   executed, tested, renderFence, gpuBusy, submitState, failedCall, fatal>>

\* threadPool.wait(): returns once every worker's queue is empty
Wait ==
    /\ ~fatal
    /\ UNCHANGED <<setupVars, sceneVars>>
    /\ pc = "wait"
    /\ ThreadPoolIdle
    /\ pc' = "assemble"
    /\ loopT' = LoopStart[1]
    /\ loopI' = LoopStart[2]
    /\ UNCHANGED <<numThreads, taskLog, jobQueue, wpc, visible, frustum, commandBuffers,
                   executed, tested, renderFence, gpuBusy, submitState, failedCall, fatal>>

\* AssembleOne without the test of the visible flag
AssembleOneUnculled(list, t, i) == Append(list, <<t, i>>)

\* AssembleOne putting the buffer at the front of the list
AssembleOneFront(list, t, i) ==
    IF numObjectsPerThread > 0 /\ visible[<<t, i>>]
    THEN <<(<<t, i>>)>> \o list
    ELSE list

\* one pass of the body of the assembly loop for (t, i): the list after it
AssembleOne(list, t, i) ==
    IF numObjectsPerThread > 0 /\ visible[<<t, i>>]
    THEN Append(list, <<t, i>>)
    ELSE list

\* "Only submit if object is within the current view frustum"
Assemble ==
    /\ ~fatal
    /\ UNCHANGED <<setupVars, sceneVars>>
    /\ pc = "assemble"
    /\ IF LoopDone(loopT)
       THEN /\ pc' = "execute"
            /\ UNCHANGED <<commandBuffers, loopT, loopI>>
       ELSE /\ commandBuffers' = AssembleOne(commandBuffers, loopT, loopI)
            /\ loopT' = LoopNext(loopT, loopI)[1]
            /\ loopI' = LoopNext(loopT, loopI)[2]
            /\ pc' = IF LoopDone(loopT') THEN "execute" ELSE "assemble"
    /\ UNCHANGED <<numThreads, taskLog, jobQueue, wpc, visible, frustum, executed, tested,
                   renderFence, gpuBusy, submitState, failedCall, fatal>>

\* if (commandBuffers.size() > 0) vkCmdExecuteCommands(...); vkCmdEndRenderPass
Execute ==
    /\ ~fatal
    /\ UNCHANGED <<setupVars, sceneVars>>
    /\ pc = "execute"
    /\ executed' = IF Len(commandBuffers) > 0 THEN commandBuffers ELSE <<>>
    /\ pc' = "endPrimary"
    /\ UNCHANGED <<numThreads, taskLog, loopT, loopI, jobQueue, wpc, visible, frustum,
                   commandBuffers, tested, renderFence, gpuBusy, submitState, failedCall, fatal>>

\* VK_CHECK_RESULT(vkEndCommandBuffer(primaryCommandBuffer))
EndPrimary ==
    /\ ~fatal
    /\ UNCHANGED <<setupVars, sceneVars>>
    /\ pc = "endPrimary"
    /\ \E res \in VkResults :
         /\ failedCall' = Failed("vkEndCommandBuffer(primaryCommandBuffer)", res)
         /\ IF VK_CHECK_RESULT(res)
            THEN pc' = "submit" /\ UNCHANGED fatal
            ELSE fatal' = TRUE /\ UNCHANGED pc
    /\ UNCHANGED <<numThreads, taskLog, loopT, loopI, jobQueue, wpc, visible, frustum,
                   commandBuffers, executed, tested, renderFence, gpuBusy,
                   submitState>>

(***************************************************************************)
(* Renderer: draw() after the recording                                    *)
(***************************************************************************)
\* VK_CHECK_RESULT(vkQueueSubmit(queue, 1, &submitInfo, renderFence))
Submit ==
    /\ ~fatal
    /\ UNCHANGED <<setupVars, sceneVars>>
    /\ pc = "submit"
    /\ \E res \in VkResults :
         /\ failedCall' = Failed("vkQueueSubmit(renderFence)", res)
         /\ IF VK_CHECK_RESULT(res)
            THEN /\ pc' = "waitFence"
                 /\ gpuBusy' = TRUE
                 /\ submitState' = "pending"
                 /\ UNCHANGED fatal
            ELSE /\ fatal' = TRUE
                 /\ UNCHANGED <<pc, gpuBusy, submitState>>
    /\ UNCHANGED <<numThreads, taskLog, loopT, loopI, jobQueue, wpc, visible, frustum,
                   commandBuffers, executed, tested, renderFence>>

\* the device finishes the submitted primary command buffer and signals the fence
GpuComplete ==
    /\ ~fatal
    /\ UNCHANGED <<setupVars, sceneVars>>
    /\ gpuBusy
    /\ gpuBusy' = FALSE
    /\ renderFence' = "signaled"
    /\ UNCHANGED <<numThreads, taskLog, pc, loopT, loopI, jobQueue, wpc, visible, frustum,
                   commandBuffers, executed, tested, submitState, failedCall, fatal>>

\* what vkWaitForFences(device, 1, &renderFence, VK_TRUE, 100000000) can return
WaitResults ==
    IF renderFence = "signaled"
    THEN {"VK_SUCCESS", "VK_ERROR_DEVICE_LOST"}
    ELSE {"VK_TIMEOUT", "VK_ERROR_DEVICE_LOST"}

\* WaitFenceNext with the result of the wait not looked at
WaitFenceNextUnchecked(res) == "resetFence"

\* do { fenceRes = vkWaitForFences(...) } while (fenceRes == VK_TIMEOUT);
\* VK_CHECK_RESULT(fenceRes): where the primary thread goes on a result
WaitFenceNext(res) ==
    IF res = "VK_TIMEOUT" THEN "waitFence"
    ELSE IF VK_CHECK_RESULT(res) THEN "resetFence"
    ELSE "fatal"

WaitFence ==
    /\ ~fatal
    /\ UNCHANGED <<setupVars, sceneVars>>
    /\ pc = "waitFence"
    /\ \E res \in WaitResults :
         /\ pc' = IF WaitFenceNext(res) = "fatal" THEN pc ELSE WaitFenceNext(res)
         /\ fatal' = (WaitFenceNext(res) = "fatal")
         /\ submitState' = IF res = "VK_SUCCESS" THEN "waited" ELSE submitState
         /\ failedCall' = Failed("vkWaitForFences", res)
    /\ UNCHANGED <<numThreads, taskLog, loopT, loopI, jobQueue, wpc, visible, frustum,
                   commandBuffers, executed, tested, renderFence, gpuBusy>>

\* what vkResetFences can return
ResetResults == {"VK_SUCCESS", "VK_ERROR_OUT_OF_DEVICE_MEMORY"}

\* the fence after vkResetFences returned res: a failed reset leaves it as it is
FenceAfterReset(res) == IF res = "VK_SUCCESS" THEN "unsignaled" ELSE renderFence

\* vkResetFences(device, 1, &renderFence): the result is not looked at
ResetFence ==
    /\ ~fatal
    /\ UNCHANGED <<setupVars, sceneVars>>
    /\ pc = "resetFence"
    /\ \E res \in ResetResults : renderFence' = FenceAfterReset(res)
    /\ pc' = "submit2"
    /\ UNCHANGED <<numThreads, taskLog, loopT, loopI, jobQueue, wpc, visible, frustum,
                   commandBuffers, executed, tested, gpuBusy, submitState, failedCall, fatal>>

\* VK_CHECK_RESULT(vkQueueSubmit(queue, 1, &submitInfo1, VK_NULL_HANDLE))
Submit2 ==
    /\ ~fatal
    /\ UNCHANGED <<setupVars, sceneVars>>
    /\ pc = "submit2"
    /\ \E res \in VkResults :
         /\ failedCall' = Failed("vkQueueSubmit(VK_NULL_HANDLE)", res)
         /\ IF VK_CHECK_RESULT(res)
            THEN pc' = "submitFrame" /\ UNCHANGED fatal
            ELSE fatal' = TRUE /\ UNCHANGED pc
    /\ UNCHANGED <<numThreads, taskLog, loopT, loopI, jobQueue, wpc, visible, frustum,
                   commandBuffers, executed, tested, renderFence, gpuBusy,
                   submitState>>

\* VulkanExampleBase::submitFrame(): presents the image; draw() returns
SubmitFrame ==
    /\ ~fatal
    /\ UNCHANGED <<setupVars, sceneVars>>
    /\ pc = "submitFrame"
    /\ pc' = "updateMatrices"
    /\ UNCHANGED <<numThreads, taskLog, loopT, loopI, jobQueue, wpc, visible, frustum,
                   commandBuffers, executed, tested, renderFence, gpuBusy,
                   submitState, failedCall, fatal>>

\* updateMatrices() called while the workers record
UpdateMatricesWhileRecording ==
    /\ ~fatal
    /\ UNCHANGED <<setupVars, sceneVars>>
    /\ pc = "wait"
    /\ frustum' \in SUBSET Objects
    /\ UNCHANGED <<numThreads, taskLog, pc, loopT, loopI, jobQueue, wpc, visible,
                   commandBuffers, executed, tested, renderFence, gpuBusy,
                   submitState, failedCall, fatal>>

\* render(): updateMatrices() after draw(); frustum.update(projection * view)
UpdateMatrices ==
    /\ ~fatal
    /\ UNCHANGED <<setupVars, sceneVars>>
    /\ pc = "updateMatrices"
    /\ frustum' \in SUBSET Objects
    /\ pc' = "prepareFrame"
    /\ UNCHANGED <<numThreads, taskLog, loopT, loopI, jobQueue, wpc, visible,
                   commandBuffers, executed, tested, renderFence, gpuBusy,
                   submitState, failedCall, fatal>>

\* viewChanged(): updateMatrices() when the camera has moved, between two calls
\* of render()
ViewChanged ==
    /\ ~fatal
    /\ UNCHANGED <<setupVars, sceneVars>>
    /\ pc = "prepareFrame"
    /\ frustum' \in SUBSET Objects
    /\ UNCHANGED <<numThreads, taskLog, pc, loopT, loopI, jobQueue, wpc, visible,
                   commandBuffers, executed, tested, renderFence, gpuBusy,
                   submitState, failedCall, fatal>>

(***************************************************************************)
(* Renderer: a worker thread runs the job at the front of its queue and     *)
(* removes it from the queue when the job has returned                      *)
(***************************************************************************)
\* the visible flag keeping a true value of an earlier frame
VisibleAfterTestKept(old, v) == old \/ v

\* objectData->visible = frustum.checkSphere(...): the flag after the test gave v
VisibleAfterTest(old, v) == v

\* threadRenderCode up to the visibility test; an invisible object ends the job
WorkerTest(t) ==
    /\ ~fatal
    /\ UNCHANGED <<setupVars, sceneVars>>
    /\ wpc[t] = "idle"
    /\ jobQueue[t] # <<>>
    /\ LET o == JobTarget(t, Head(jobQueue[t]))
           v == checkSphere(o[1], o[2])
       IN IF numObjectsPerThread <= 0
          THEN /\ jobQueue' = [jobQueue EXCEPT ![t] = Tail(@)]
               /\ UNCHANGED <<visible, tested, wpc, taskLog>>
          ELSE /\ visible' = [visible EXCEPT ![o] = VisibleAfterTest(@, v)]
               /\ tested' = [tested EXCEPT ![o] =
                                IF v THEN "visible" ELSE "invisible"]
               /\ IF v
                  THEN /\ wpc' = [wpc EXCEPT ![t] = "begin"]
                       /\ taskLog' = Logged(o, "started")
                       /\ UNCHANGED jobQueue
                  ELSE /\ jobQueue' = [jobQueue EXCEPT ![t] = Tail(@)]
                       /\ taskLog' = [taskLog EXCEPT ![o].started = @ + 1,
                                                     ![o].finished = @ + 1]
                       /\ UNCHANGED wpc
    /\ UNCHANGED <<numThreads, pc, loopT, loopI, frustum, commandBuffers,
                   executed, renderFence, gpuBusy, submitState, failedCall, fatal>>

\* VK_CHECK_RESULT(vkBeginCommandBuffer(cmdBuffer, &commandBufferBeginInfo))
WorkerBegin(t) ==
    /\ ~fatal
    /\ UNCHANGED <<setupVars, sceneVars>>
    /\ wpc[t] = "begin"
    /\ \E res \in VkResults :
         /\ failedCall' = Failed("vkBeginCommandBuffer(cmdBuffer)", res)
         /\ IF VK_CHECK_RESULT(res)
            THEN wpc' = [wpc EXCEPT ![t] = "record"] /\ UNCHANGED fatal
            ELSE fatal' = TRUE /\ UNCHANGED wpc
    /\ UNCHANGED <<numThreads, taskLog, pc, loopT, loopI, jobQueue, visible, frustum,
                   commandBuffers, executed, tested, renderFence, gpuBusy,
                   submitState>>

\* the recorded commands, VK_CHECK_RESULT(vkEndCommandBuffer(cmdBuffer)); the job
\* returns and leaves the queue
WorkerEnd(t) ==
    /\ ~fatal
    /\ UNCHANGED <<setupVars, sceneVars>>
    /\ wpc[t] = "record"
    /\ \E res \in VkResults :
         /\ failedCall' = Failed("vkEndCommandBuffer(cmdBuffer)", res)
         /\ IF VK_CHECK_RESULT(res)
            THEN /\ wpc' = [wpc EXCEPT ![t] = "idle"]
                 /\ jobQueue' = [jobQueue EXCEPT ![t] = Tail(@)]
                 /\ taskLog' =
                       LET o == JobTarget(t, Head(jobQueue[t]))
                       IN [taskLog EXCEPT ![o].recorded = @ + 1,
                                          ![o].finished = @ + 1]
                 /\ UNCHANGED fatal
            ELSE /\ fatal' = TRUE
                 /\ UNCHANGED <<wpc, jobQueue, taskLog>>
    /\ UNCHANGED <<numThreads, pc, loopT, loopI, visible, frustum,
                   commandBuffers, executed, tested, renderFence, gpuBusy,
                   submitState>>

\* the scene's variables while no scene is loaded
SceneIdle ==
    /\ scenePc = "off"
    /\ materials = <<>>
    /\ meshes = <<>>
    /\ renderSingleScenePart = FALSE
    /\ scenePartIndex = 0
    /\ bgMeshIds = <<>>
    /\ alphaMeshIds = <<>>
    /\ nonAlphaMeshIds = <<>>
    /\ drawn = <<>>

\* the set-up variables while the renderer runs: set-up is over
SetupIdle ==
    /\ prog = "renderer"
    /\ spc = "ready"
    /\ queueProps = <<>>
    /\ graphicsQueueNodeIndex = 0
    /\ presentQueueNodeIndex = 0
    /\ queueNodeIndex = 0
    /\ surfaceFormats = <<>>
    /\ colorFormat = "VK_FORMAT_B8G8R8A8_UNORM"
    /\ colorSpace = "VK_COLOR_SPACE_SRGB_NONLINEAR_KHR"
    /\ surfCaps = <<>>
    /\ width = 1
    /\ height = 1
    /\ requested = <<>>
    /\ swapchainCI = <<>>
    /\ oldSwapchain = VK_NULL_HANDLE
    /\ swapChain = 1
    /\ imageCount = 1
    /\ buffers = <<(<<1, 0>>)>>
    /\ viewIndex = 0
    /\ liveSwapchains = {1}
    /\ liveViews = {<<1, 0>>}
    /\ creates = 1
    /\ presentModes = <<"VK_PRESENT_MODE_FIFO_KHR">>
    /\ vsync = FALSE
    /\ surfCounts = <<1, 1>>
    /\ surface = 1
    /\ liveSurface = TRUE
    /\ surfaceNow = <<>>
    /\ lastCall = "none"
    /\ driverStatus = "none"
    /\ lastResult = "none"
    /\ lastArgs = <<>>
    /\ repeatCall = FALSE

Init ==
    /\ FrameInit
    /\ SetupIdle
    /\ SceneIdle
    /\ fatal = FALSE

Next ==
    \/ PrepareFrame
    \/ BeginPrimary
    \/ Dispatch
    \/ Wait
    \/ Assemble
    \/ Execute
    \/ EndPrimary
    \/ Submit
    \/ GpuComplete
    \/ WaitFence
    \/ ResetFence
    \/ Submit2
    \/ SubmitFrame
    \/ UpdateMatrices
    \/ ViewChanged
    \/ \E t \in Threads : WorkerTest(t)
    \/ \E t \in Threads : WorkerBegin(t)
    \/ \E t \in Threads : WorkerEnd(t)

Spec == Init /\ [][Next]_vars

\* every worker thread goes on with the job at the front of its queue, and
\* threadPool.wait() returns when the queues are empty
Fairness ==
    /\ WF_vars(Wait)
    /\ \A t \in 0 .. MaxThreads - 1 :
          WF_vars(t \in Threads /\ (WorkerTest(t) \/ WorkerBegin(t) \/ WorkerEnd(t)))

\* one call of updateCommandBuffers, from prepareFrame to the end of the primary
\* command buffer
NextRecord ==
    \/ PrepareFrame
    \/ BeginPrimary
    \/ Dispatch
    \/ Wait
    \/ Assemble
    \/ Execute
    \/ EndPrimary
    \/ \E t \in Threads : WorkerTest(t)
    \/ \E t \in Threads : WorkerBegin(t)
    \/ \E t \in Threads : WorkerEnd(t)

SpecRecord == Init /\ [][NextRecord]_vars /\ Fairness

(***************************************************************************)
(* Set-up: what the driver can report                                      *)
(***************************************************************************)
\* a queue family: queueFlags & VK_QUEUE_GRAPHICS_BIT, supportsPresent[i] == VK_TRUE
QueueFamilies == [graphics : BOOLEAN, present : BOOLEAN]

QueueFamilyLists == UNION {[1 .. n -> QueueFamilies] : n \in 1 .. MaxFamilies}

Formats == {"VK_FORMAT_UNDEFINED", "VK_FORMAT_B8G8R8A8_UNORM", "VK_FORMAT_R8G8B8A8_UNORM"}

ColorSpaces == {"VK_COLOR_SPACE_SRGB_NONLINEAR_KHR", "VK_COLOR_SPACE_DISPLAY_P3_NONLINEAR_EXT"}

SurfaceFormats == [format : Formats, colorSpace : ColorSpaces]

SurfaceFormatLists == UNION {[1 .. n -> SurfaceFormats] : n \in 0 .. MaxFormats}

Extents == (1 .. MaxExtent) \X (1 .. MaxExtent)

\* VkSurfaceCapabilitiesKHR: minImageExtent <= maxImageExtent, and currentExtent
\* is (0xFFFFFFFF, 0xFFFFFFFF) or lies between them
SurfaceCapabilities ==
    {c \in [currentExtent : Extents \cup {<<UINT32_MAX, UINT32_MAX>>},
            minImageExtent : Extents, maxImageExtent : Extents] :
        /\ c.minImageExtent[1] <= c.maxImageExtent[1]
        /\ c.minImageExtent[2] <= c.maxImageExtent[2]
        /\ c.currentExtent[1] # UINT32_MAX =>
              /\ c.minImageExtent[1] <= c.currentExtent[1]
              /\ c.currentExtent[1] <= c.maxImageExtent[1]
              /\ c.minImageExtent[2] <= c.currentExtent[2]
              /\ c.currentExtent[2] <= c.maxImageExtent[2]}

PresentModes ==
    {"VK_PRESENT_MODE_FIFO_KHR", "VK_PRESENT_MODE_MAILBOX_KHR",
     "VK_PRESENT_MODE_IMMEDIATE_KHR", "VK_PRESENT_MODE_FIFO_RELAXED_KHR"}

PresentModeLists == UNION {[1 .. n -> PresentModes] : n \in 0 .. MaxModes}

\* minImageCount >= 1; maxImageCount is 0 (no limit) or at least minImageCount
ImageCountLimits ==
    {c \in (1 .. MaxImages) \X (0 .. MaxImages) : c[2] = 0 \/ c[1] <= c[2]}

\* the present modes and image count limits of the surface set-up runs against
SetupPresentModeLists == {<<>>, <<"VK_PRESENT_MODE_FIFO_KHR">>}

SetupImageCountLimits == {<<1, 1>>}

\* what a query of the surface can return: a surface that does not exist is lost
SurfaceQueryResults ==
    IF liveSurface THEN VkResults ELSE VkResults \ {"VK_SUCCESS"}

(***************************************************************************)
(* Set-up: queue selection                                                 *)
(* The code numbers the families from 0: family i is props[i + 1].         *)
(***************************************************************************)
\* VulkanSwapChain::initSurface: the first loop, from family i on, the graphics
\* index so far being g; the pair (graphics index, present index) it ends with
RECURSIVE InitSurfaceFirstLoop(_, _, _)
InitSurfaceFirstLoop(props, i, g) ==
    IF i >= Len(props) THEN <<g, UINT32_MAX>>
    ELSE IF props[i + 1].graphics
         THEN IF props[i + 1].present
              THEN <<i, i>>
              ELSE InitSurfaceFirstLoop(props, i + 1, IF g = UINT32_MAX THEN i ELSE g)
         ELSE InitSurfaceFirstLoop(props, i + 1, g)

\* VulkanSwapChain::initSurface: the second loop, the first family that presents
RECURSIVE InitSurfaceSecondLoop(_, _)
InitSurfaceSecondLoop(props, i) ==
    IF i >= Len(props) THEN UINT32_MAX
    ELSE IF props[i + 1].present THEN i
    ELSE InitSurfaceSecondLoop(props, i + 1)

InitSurfaceSelect(props) ==
    LET first == InitSurfaceFirstLoop(props, 0, UINT32_MAX)
    IN IF first[2] = UINT32_MAX
       THEN <<first[1], InitSurfaceSecondLoop(props, 0)>>
       ELSE first

\* VulkanSwapChain::initSurface calls vks::tools::exitFatal, which ends the process
InitSurfaceExits(g, p) ==
    \/ g = UINT32_MAX \/ p = UINT32_MAX
    \/ g # p

\* sample_main: the first loop
RECURSIVE MainFirstLoop(_, _, _)
MainFirstLoop(props, i, g) ==
    IF i >= Len(props) THEN <<g, UINT32_MAX>>
    ELSE IF props[i + 1].graphics
         THEN IF props[i + 1].present
              THEN <<i, i>>
              ELSE MainFirstLoop(props, i + 1, IF g = UINT32_MAX THEN i ELSE g)
         ELSE MainFirstLoop(props, i + 1, g)

\* sample_main: the second loop
RECURSIVE MainSecondLoop(_, _)
MainSecondLoop(props, i) ==
    IF i >= Len(props) THEN UINT32_MAX
    ELSE IF props[i + 1].present THEN i
    ELSE MainSecondLoop(props, i + 1)

\* MainSelect running the second loop whatever the first loop found
MainSelectSeparate(props) ==
    <<MainFirstLoop(props, 0, UINT32_MAX)[1], MainSecondLoop(props, 0)>>

MainSelect(props) ==
    LET first == MainFirstLoop(props, 0, UINT32_MAX)
    IN IF first[2] = UINT32_MAX
       THEN <<first[1], MainSecondLoop(props, 0)>>
       ELSE first

\* MainExits testing the graphics index alone
MainExitsGraphicsOnly(g, p) == g = UINT32_MAX

\* sample_main calls exit(-1)
MainExits(g, p) == g = UINT32_MAX \/ p = UINT32_MAX

(***************************************************************************)
(* Set-up: format selection                                                *)
(***************************************************************************)
\* the loop over surfaceFormats: the first entry from k on with
\* VK_FORMAT_B8G8R8A8_UNORM, 0 when there is none
RECURSIVE FindB8G8R8A8(_, _)
FindB8G8R8A8(fmts, k) ==
    IF k > Len(fmts) THEN 0
    ELSE IF fmts[k].format = "VK_FORMAT_B8G8R8A8_UNORM" THEN k
    ELSE FindB8G8R8A8(fmts, k + 1)

\* InitSurfaceFormat taking the reported format when the list is one
\* VK_FORMAT_UNDEFINED entry
InitSurfaceFormatNoDefault(fmts) ==
    LET k == FindB8G8R8A8(fmts, 1)
    IN IF k > 0 THEN fmts[k] ELSE fmts[1]

\* VulkanSwapChain::initSurface: colorFormat and colorSpace for a non-empty list
InitSurfaceFormat(fmts) ==
    IF Len(fmts) = 1 /\ fmts[1].format = "VK_FORMAT_UNDEFINED"
    THEN [format |-> "VK_FORMAT_B8G8R8A8_UNORM", colorSpace |-> fmts[1].colorSpace]
    ELSE LET k == FindB8G8R8A8(fmts, 1)
         IN IF k > 0 THEN fmts[k] ELSE fmts[1]

\* sample_main: info.format for a non-empty list
MainFormat(fmts) ==
    IF Len(fmts) = 1 /\ fmts[1].format = "VK_FORMAT_UNDEFINED"
    THEN "VK_FORMAT_B8G8R8A8_UNORM"
    ELSE fmts[1].format

(***************************************************************************)
(* Set-up: extent, sharing mode, image views                               *)
(***************************************************************************)
\* create taking the caller's width and height whatever the surface reports
CreateExtentRequested(caps, w, h) == <<w, h>>

\* VulkanSwapChain::create: swapchainExtent, also written back to *width, *height
CreateExtent(caps, w, h) ==
    IF caps.currentExtent[1] = UINT32_MAX THEN <<w, h>> ELSE caps.currentExtent

\* sample_main: one dimension put between the reported minimum and maximum
MainClamp(v, lo, hi) == IF v < lo THEN lo ELSE IF v > hi THEN hi ELSE v

\* sample_main: swapchainExtent
MainExtent(caps, w, h) ==
    IF caps.currentExtent[1] = UINT32_MAX
    THEN <<MainClamp(w, caps.minImageExtent[1], caps.maxImageExtent[1]),
           MainClamp(h, caps.minImageExtent[2], caps.maxImageExtent[2])>>
    ELSE caps.currentExtent

\* MainSharingMode never sharing
MainSharingModeExclusive(g, p) ==
    [imageSharingMode |-> "VK_SHARING_MODE_EXCLUSIVE", queueFamilyIndices |-> <<>>]

\* sample_main: imageSharingMode and pQueueFamilyIndices of swapchain_ci
MainSharingMode(g, p) ==
    IF g # p
    THEN [imageSharingMode |-> "VK_SHARING_MODE_CONCURRENT", queueFamilyIndices |-> <<g, p>>]
    ELSE [imageSharingMode |-> "VK_SHARING_MODE_EXCLUSIVE", queueFamilyIndices |-> <<>>]

\* VulkanSwapChain::create: the loop over presentModes from entry i on, the mode
\* chosen so far being mode
RECURSIVE CreatePresentModeLoop(_, _, _)
CreatePresentModeLoop(modes, i, mode) ==
    IF i >= Len(modes) THEN mode
    ELSE IF modes[i + 1] = "VK_PRESENT_MODE_MAILBOX_KHR"
         THEN "VK_PRESENT_MODE_MAILBOX_KHR"
         ELSE CreatePresentModeLoop(modes, i + 1,
                 IF mode # "VK_PRESENT_MODE_MAILBOX_KHR"
                    /\ modes[i + 1] = "VK_PRESENT_MODE_IMMEDIATE_KHR"
                 THEN "VK_PRESENT_MODE_IMMEDIATE_KHR"
                 ELSE mode)

\* CreatePresentMode searching the list whatever vsync is
CreatePresentModeNoVsync(modes, vs) ==
    CreatePresentModeLoop(modes, 0, "VK_PRESENT_MODE_FIFO_KHR")

\* VulkanSwapChain::create: swapchainPresentMode
CreatePresentMode(modes, vs) ==
    IF ~vs
    THEN CreatePresentModeLoop(modes, 0, "VK_PRESENT_MODE_FIFO_KHR")
    ELSE "VK_PRESENT_MODE_FIFO_KHR"

\* sample_main: swapchainPresentMode
MainPresentMode == "VK_PRESENT_MODE_FIFO_KHR"

\* CreateImageCount without the comparison with maxImageCount
CreateImageCountUnclamped(counts) == counts[1] + 1

\* create asking for one more image at every creation
CreateImageCountGrowing(counts) == counts[1] + creates

\* VulkanSwapChain::create: desiredNumberOfSwapchainImages
CreateImageCount(counts) ==
    IF counts[2] > 0 /\ counts[1] + 1 > counts[2] THEN counts[2] ELSE counts[1] + 1

\* sample_main: desiredNumberOfSwapChainImages
MainImageCount(counts) == counts[1]

\* the image counts the device can give a swapchain created with ci
ImageCounts(ci) ==
    IF ci.minImageCount > MaxImages THEN {ci.minImageCount}
    ELSE ci.minImageCount .. MaxImages

\* an image view handle: (swapchain, image index); the null handle
NullView == <<VK_NULL_HANDLE, 0>>

\* std::vector::resize(n): the first elements kept, new ones value-initialised
Resize(views, n) == [k \in 1 .. n |-> IF k <= Len(views) THEN views[k] ELSE NullView]

\* the views buffers[i].view for i < imageCount
BufferViews == {buffers[k] : k \in 1 .. imageCount}

\* assert(!err) passing whatever err is
AssertNoErrOff(err) == TRUE

\* assert(!err), assert(res == VK_SUCCESS): the assertion passes
AssertNoErr(err) == err = "VK_SUCCESS"

(***************************************************************************)
(* Set-up: VulkanSwapChain                                                 *)
(***************************************************************************)
SetupInit ==
    /\ prog \in {"VulkanSwapChain", "sample_main"}
    /\ spc = IF prog = "VulkanSwapChain" THEN "initSurface" ELSE "main"
    /\ queueProps = <<>>
    /\ graphicsQueueNodeIndex = UINT32_MAX
    /\ presentQueueNodeIndex = UINT32_MAX
    /\ queueNodeIndex = UINT32_MAX
    /\ surfaceFormats = <<>>
    /\ colorFormat = "unset"
    /\ colorSpace = "unset"
    /\ surfCaps = <<>>
    /\ width \in IF prog = "sample_main" THEN 1 .. MaxExtent ELSE {1}
    /\ height \in IF prog = "sample_main" THEN 1 .. MaxExtent ELSE {1}
    /\ requested = <<>>
    /\ swapchainCI = <<>>
    /\ oldSwapchain = VK_NULL_HANDLE
    /\ swapChain = VK_NULL_HANDLE
    /\ imageCount = 0
    /\ buffers = <<>>
    /\ viewIndex = 0
    /\ liveSwapchains = {}
    /\ liveViews = {}
    /\ creates = 0
    /\ presentModes \in SetupPresentModeLists
    /\ vsync = FALSE
    /\ surfCounts \in SetupImageCountLimits
    /\ surface = IF prog = "sample_main" THEN 1 ELSE VK_NULL_HANDLE
    /\ liveSurface = (prog = "sample_main")
    /\ surfaceNow = <<>>
    /\ lastCall = "none"
    /\ driverStatus = "none"
    /\ lastResult = "none"
    /\ lastArgs = <<>>
    /\ repeatCall = FALSE

\* initSurface: the surface, the queue families, the two loops, the two exitFatal tests
InitSurfaceQueues ==
    /\ ~fatal
    /\ prog = "VulkanSwapChain"
    /\ spc = "initSurface"
    /\ \E err \in VkResults :
         /\ liveSurface' = (err = "VK_SUCCESS")
         /\ surface' \in IF err = "VK_SUCCESS" THEN {1} ELSE {VK_NULL_HANDLE, 2}
    /\ \E props \in QueueFamilyLists :
         LET sel == InitSurfaceSelect(props)
         IN /\ queueProps' = props
            /\ graphicsQueueNodeIndex' = sel[1]
            /\ presentQueueNodeIndex' = sel[2]
            /\ IF InitSurfaceExits(sel[1], sel[2])
               THEN /\ fatal' = TRUE
                    /\ UNCHANGED <<spc, queueNodeIndex>>
               ELSE /\ queueNodeIndex' = sel[1]
                    /\ spc' = "initSurfaceFormats"
                    /\ UNCHANGED fatal
    /\ UNCHANGED <<prog, formatVars, extentVars, handleVars, frameVars, sceneVars,
                   reportVars, surfaceNow, callVars, repeatVars>>

\* initSurface: the surface formats, colorFormat and colorSpace
InitSurfaceFormats ==
    /\ ~fatal
    /\ prog = "VulkanSwapChain"
    /\ spc = "initSurfaceFormats"
    /\ \E fmts \in SurfaceFormatLists, err \in SurfaceQueryResults :
         IF AssertNoErr(err) /\ Len(fmts) > 0
         THEN /\ surfaceFormats' = fmts
              /\ colorFormat' = InitSurfaceFormat(fmts).format
              /\ colorSpace' = InitSurfaceFormat(fmts).colorSpace
              /\ spc' = "ready"
              /\ UNCHANGED fatal
         ELSE /\ fatal' = TRUE
              /\ surfaceFormats' = IF AssertNoErr(err) THEN fmts ELSE <<>>
              /\ UNCHANGED <<colorFormat, colorSpace, spc>>
    /\ queueProps' = <<>>
    /\ UNCHANGED <<prog, graphicsQueueNodeIndex, presentQueueNodeIndex,
                   queueNodeIndex, extentVars, handleVars, frameVars, sceneVars,
                   reportVars, surfaceVars, callVars, repeatVars>>

\* create: oldSwapchain, the capabilities and present modes, swapchainExtent and
\* the create info
CreateBeginWith(w, h, caps, err) ==
    /\ ~fatal
    /\ prog = "VulkanSwapChain"
    /\ spc = "ready"
    /\ creates < MaxCreates
    /\ IF AssertNoErr(err) /\ Len(presentModes) > 0
       THEN /\ oldSwapchain' = swapChain
            /\ surfCaps' = caps
            /\ requested' = <<w, h>>
            /\ width' = CreateExtent(caps, w, h)[1]
            /\ height' = CreateExtent(caps, w, h)[2]
            /\ swapchainCI' =
                  [minImageCount |-> CreateImageCount(surfCounts),
                   imageExtent |-> CreateExtent(caps, w, h),
                   imageFormat |-> colorFormat,
                   imageColorSpace |-> colorSpace,
                   imageSharingMode |-> "VK_SHARING_MODE_EXCLUSIVE",
                   queueFamilyIndices |-> <<>>,
                   presentMode |-> CreatePresentMode(presentModes, vsync),
                   oldSwapchain |-> swapChain]
            /\ spc' = "createSwapchain"
            /\ UNCHANGED fatal
       ELSE /\ fatal' = TRUE
            /\ UNCHANGED <<oldSwapchain, extentVars, spc>>
    /\ surfaceFormats' = <<>>
    /\ UNCHANGED <<prog, queueVars, colorFormat, colorSpace, swapChain, imageCount,
                   buffers, viewIndex, liveSwapchains, liveViews, creates, frameVars, sceneVars,
                   reportVars, surfaceVars, callVars>>

\* create called with any width and height, the surface reporting any capabilities
CreateBegin ==
    /\ \E w \in 1 .. MaxExtent, h \in 1 .. MaxExtent,
          caps \in SurfaceCapabilities, err \in VkResults :
         CreateBeginWith(w, h, caps, err)
    /\ UNCHANGED repeatVars

\* create: fpCreateSwapchainKHR and the assert on its result
CreateSwapchain ==
    /\ ~fatal
    /\ prog = "VulkanSwapChain"
    /\ spc = "createSwapchain"
    /\ \E err \in VkResults :
         IF AssertNoErr(err)
         THEN /\ IF err = "VK_SUCCESS"
                 THEN /\ swapChain' = creates + 1
                      /\ liveSwapchains' = liveSwapchains \cup {creates + 1}
                      /\ creates' = creates + 1
                 ELSE UNCHANGED <<swapChain, liveSwapchains, creates>>
              /\ spc' = "destroyOld"
              /\ UNCHANGED fatal
         ELSE /\ fatal' = TRUE
              /\ UNCHANGED <<swapChain, liveSwapchains, creates, spc>>
    /\ surfCaps' = <<>>
    /\ requested' = <<>>
    /\ UNCHANGED <<prog, queueVars, formatVars, width, height, swapchainCI,
                   oldSwapchain, imageCount, buffers, viewIndex, liveViews, frameVars, sceneVars,
                   reportVars, surfaceVars, callVars, repeatVars>>

\* create: "If an existing swap chain is re-created, destroy the old swap chain"
DestroyOld ==
    /\ ~fatal
    /\ prog = "VulkanSwapChain"
    /\ spc = "destroyOld"
    /\ IF oldSwapchain # VK_NULL_HANDLE
       THEN /\ liveViews' = liveViews \ BufferViews
            /\ liveSwapchains' = liveSwapchains \ {oldSwapchain}
       ELSE UNCHANGED <<liveViews, liveSwapchains>>
    /\ spc' = "getImages"
    /\ UNCHANGED <<prog, queueVars, formatVars, extentVars, oldSwapchain, swapChain,
                   imageCount, buffers, viewIndex, creates, frameVars, sceneVars, fatal,
                   reportVars, surfaceVars, callVars, repeatVars>>

\* create: fpGetSwapchainImagesKHR, images.resize, buffers.resize
GetImages ==
    /\ ~fatal
    /\ prog = "VulkanSwapChain"
    /\ spc = "getImages"
    /\ \E n \in ImageCounts(swapchainCI), err \in VkResults :
         IF AssertNoErr(err)
         THEN /\ imageCount' = n
              /\ buffers' = Resize(buffers, n)
              /\ viewIndex' = 0
              /\ spc' = "createViews"
              /\ UNCHANGED fatal
         ELSE /\ fatal' = TRUE
              /\ UNCHANGED <<imageCount, buffers, viewIndex, spc>>
    /\ UNCHANGED <<prog, queueVars, formatVars, extentVars, oldSwapchain, swapChain,
                   liveSwapchains, liveViews, creates, frameVars, sceneVars,
                   reportVars, surfaceVars, callVars, repeatVars>>

\* create: one pass of the loop that creates buffers[i].view
CreateView ==
    /\ ~fatal
    /\ prog = "VulkanSwapChain"
    /\ spc = "createViews"
    /\ \E err \in VkResults :
         IF AssertNoErr(err)
         THEN /\ buffers' = [buffers EXCEPT ![viewIndex + 1] = <<swapChain, viewIndex>>]
              /\ liveViews' = liveViews \cup {<<swapChain, viewIndex>>}
              /\ viewIndex' = viewIndex + 1
              /\ spc' = IF viewIndex + 1 < imageCount THEN "createViews" ELSE "ready"
              /\ UNCHANGED fatal
         ELSE /\ fatal' = TRUE
              /\ UNCHANGED <<buffers, liveViews, viewIndex, spc>>
    /\ UNCHANGED <<prog, queueVars, formatVars, extentVars, oldSwapchain, swapChain,
                   imageCount, liveSwapchains, creates, frameVars, sceneVars,
                   reportVars, surfaceVars, callVars, repeatVars>>

(***************************************************************************)
(* Set-up: sample_main                                                     *)
(***************************************************************************)
\* the present support of every family, the two loops, exit(-1)
MainSelectQueues ==
    /\ ~fatal
    /\ prog = "sample_main"
    /\ spc = "main"
    /\ \E props \in QueueFamilyLists :
         LET sel == MainSelect(props)
         IN /\ queueProps' = props
            /\ graphicsQueueNodeIndex' = sel[1]
            /\ presentQueueNodeIndex' = sel[2]
            /\ IF MainExits(sel[1], sel[2])
               THEN fatal' = TRUE /\ UNCHANGED spc
               ELSE spc' = "mainFormats" /\ UNCHANGED fatal
    /\ UNCHANGED <<prog, queueNodeIndex, formatVars, extentVars, handleVars, frameVars, sceneVars,
                   reportVars, surfaceVars, callVars, repeatVars>>

\* init_device, the surface formats, info.format
MainFormats ==
    /\ ~fatal
    /\ prog = "sample_main"
    /\ spc = "mainFormats"
    /\ \E fmts \in SurfaceFormatLists, err \in VkResults :
         IF AssertNoErr(err) /\ Len(fmts) >= 1
         THEN /\ surfaceFormats' = fmts
              /\ colorFormat' = MainFormat(fmts)
              /\ spc' = "mainExtent"
              /\ UNCHANGED fatal
         ELSE /\ fatal' = TRUE
              /\ surfaceFormats' = IF AssertNoErr(err) THEN fmts ELSE <<>>
              /\ UNCHANGED <<colorFormat, spc>>
    /\ queueProps' = <<>>
    /\ UNCHANGED <<prog, graphicsQueueNodeIndex, presentQueueNodeIndex,
                   queueNodeIndex, colorSpace, extentVars, handleVars, frameVars, sceneVars,
                   reportVars, surfaceVars, callVars, repeatVars>>

\* the capabilities and present modes, swapchainExtent, swapchain_ci
MainCreateInfo ==
    /\ ~fatal
    /\ prog = "sample_main"
    /\ spc = "mainExtent"
    /\ \E caps \in SurfaceCapabilities, err \in VkResults :
         IF AssertNoErr(err)
         THEN /\ surfCaps' = caps
              /\ requested' = <<width, height>>
              /\ swapchainCI' =
                    [minImageCount |-> MainImageCount(surfCounts),
                     presentMode |-> MainPresentMode,
                     imageExtent |-> MainExtent(caps, width, height),
                     imageFormat |-> colorFormat,
                     imageColorSpace |-> "VK_COLOR_SPACE_SRGB_NONLINEAR_KHR",
                     imageSharingMode |->
                        MainSharingMode(graphicsQueueNodeIndex,
                                        presentQueueNodeIndex).imageSharingMode,
                     queueFamilyIndices |->
                        MainSharingMode(graphicsQueueNodeIndex,
                                        presentQueueNodeIndex).queueFamilyIndices,
                     oldSwapchain |-> VK_NULL_HANDLE]
              /\ spc' = "mainSwapchain"
              /\ UNCHANGED fatal
         ELSE /\ fatal' = TRUE
              /\ UNCHANGED <<surfCaps, requested, swapchainCI, spc>>
    /\ surfaceFormats' = <<>>
    /\ UNCHANGED <<prog, queueVars, colorFormat, colorSpace, width, height,
                   handleVars, frameVars, sceneVars,
                   reportVars, surfaceVars, callVars, repeatVars>>

\* vkCreateSwapchainKHR and the assert on its result
MainCreateSwapchain ==
    /\ ~fatal
    /\ prog = "sample_main"
    /\ spc = "mainSwapchain"
    /\ \E err \in VkResults :
         IF AssertNoErr(err)
         THEN /\ IF err = "VK_SUCCESS"
                 THEN /\ swapChain' = creates + 1
                      /\ liveSwapchains' = liveSwapchains \cup {creates + 1}
                      /\ creates' = creates + 1
                 ELSE UNCHANGED <<swapChain, liveSwapchains, creates>>
              /\ spc' = "mainImages"
              /\ UNCHANGED fatal
         ELSE /\ fatal' = TRUE
              /\ UNCHANGED <<swapChain, liveSwapchains, creates, spc>>
    /\ surfCaps' = <<>>
    /\ requested' = <<>>
    /\ UNCHANGED <<prog, queueVars, formatVars, width, height, swapchainCI,
                   oldSwapchain, imageCount, buffers, viewIndex, liveViews, frameVars, sceneVars,
                   reportVars, surfaceVars, callVars, repeatVars>>

\* vkGetSwapchainImagesKHR, info.buffers.resize
MainGetImages ==
    /\ ~fatal
    /\ prog = "sample_main"
    /\ spc = "mainImages"
    /\ \E n \in ImageCounts(swapchainCI), err \in VkResults :
         IF AssertNoErr(err)
         THEN /\ imageCount' = n
              /\ buffers' = Resize(buffers, n)
              /\ viewIndex' = 0
              /\ spc' = "mainViews"
              /\ UNCHANGED fatal
         ELSE /\ fatal' = TRUE
              /\ UNCHANGED <<imageCount, buffers, viewIndex, spc>>
    /\ UNCHANGED <<prog, queueVars, formatVars, extentVars, oldSwapchain, swapChain,
                   liveSwapchains, liveViews, creates, frameVars, sceneVars,
                   reportVars, surfaceVars, callVars, repeatVars>>

\* one pass of the loop that creates info.buffers[i].view
MainCreateView ==
    /\ ~fatal
    /\ prog = "sample_main"
    /\ spc = "mainViews"
    /\ \E err \in VkResults :
         IF AssertNoErr(err)
         THEN /\ buffers' = [buffers EXCEPT ![viewIndex + 1] = <<swapChain, viewIndex>>]
              /\ liveViews' = liveViews \cup {<<swapChain, viewIndex>>}
              /\ viewIndex' = viewIndex + 1
              /\ spc' = IF viewIndex + 1 < imageCount THEN "mainViews" ELSE "mainCleanup"
              /\ UNCHANGED fatal
         ELSE /\ fatal' = TRUE
              /\ UNCHANGED <<buffers, liveViews, viewIndex, spc>>
    /\ UNCHANGED <<prog, queueVars, formatVars, extentVars, oldSwapchain, swapChain,
                   imageCount, liveSwapchains, creates, frameVars, sceneVars,
                   reportVars, surfaceVars, callVars, repeatVars>>

\* "Clean Up": the image views, then the swapchain
MainCleanup ==
    /\ ~fatal
    /\ prog = "sample_main"
    /\ spc = "mainCleanup"
    /\ liveViews' = liveViews \ BufferViews
    /\ liveSwapchains' = liveSwapchains \ {swapChain}
    /\ spc' = "mainDone"
    /\ UNCHANGED <<prog, queueVars, formatVars, extentVars, oldSwapchain, swapChain,
                   imageCount, buffers, viewIndex, creates, frameVars, sceneVars, fatal,
                   reportVars, surfaceVars, callVars, repeatVars>>

\* the renderer's variables while set-up runs: the renderer has not started
FrameIdle ==
    /\ numThreads = 1
    /\ pc = "off"
    /\ loopT = 0
    /\ loopI = 0
    /\ jobQueue = [t \in Threads |-> <<>>]
    /\ wpc = [t \in Threads |-> "idle"]
    /\ visible = [o \in Objects |-> TRUE]
    /\ frustum = {}
    /\ commandBuffers = <<>>
    /\ executed = <<>>
    /\ tested = [o \in Objects |-> "none"]
    /\ renderFence = "unsignaled"
    /\ gpuBusy = FALSE
    /\ submitState = "none"
    /\ failedCall = "none"
    /\ taskLog = NoTasks

InitSetup ==
    /\ SetupInit
    /\ FrameIdle
    /\ SceneIdle
    /\ fatal = FALSE

NextSetup ==
    \/ InitSurfaceQueues
    \/ InitSurfaceFormats
    \/ CreateBegin
    \/ CreateSwapchain
    \/ DestroyOld
    \/ GetImages
    \/ CreateView
    \/ MainSelectQueues
    \/ MainFormats
    \/ MainCreateInfo
    \/ MainCreateSwapchain
    \/ MainGetImages
    \/ MainCreateView
    \/ MainCleanup

SpecSetup == InitSetup /\ [][NextSetup]_vars

(***************************************************************************)
(* Present mode and image count on their own (specification SpecSelect):   *)
(* the two selections of create and of sample_main applied to every list   *)
(* of present modes, vsync flag and pair of image count limits             *)
(***************************************************************************)
InitSelect ==
    /\ prog \in {"VulkanSwapChain", "sample_main"}
    /\ spc = "select"
    /\ presentModes \in PresentModeLists
    /\ vsync \in BOOLEAN
    /\ surfCounts \in ImageCountLimits
    /\ swapchainCI = <<>>
    /\ queueProps = <<>>
    /\ graphicsQueueNodeIndex = 0
    /\ presentQueueNodeIndex = 0
    /\ queueNodeIndex = 0
    /\ surfaceFormats = <<>>
    /\ colorFormat = "VK_FORMAT_B8G8R8A8_UNORM"
    /\ colorSpace = "VK_COLOR_SPACE_SRGB_NONLINEAR_KHR"
    /\ surfCaps = <<>>
    /\ width = 1
    /\ height = 1
    /\ requested = <<>>
    /\ oldSwapchain = VK_NULL_HANDLE
    /\ swapChain = VK_NULL_HANDLE
    /\ imageCount = 0
    /\ buffers = <<>>
    /\ viewIndex = 0
    /\ liveSwapchains = {}
    /\ liveViews = {}
    /\ creates = 0
    /\ surface = 1
    /\ liveSurface = TRUE
    /\ surfaceNow = <<>>
    /\ lastCall = "none"
    /\ driverStatus = "none"
    /\ lastResult = "none"
    /\ lastArgs = <<>>
    /\ repeatCall = FALSE
    /\ FrameIdle
    /\ SceneIdle
    /\ fatal = FALSE

\* VulkanSwapChain::create: swapchainCI.minImageCount and swapchainCI.presentMode
SelectCreate ==
    /\ prog = "VulkanSwapChain"
    /\ spc = "select"
    /\ swapchainCI' = [minImageCount |-> CreateImageCount(surfCounts),
                       presentMode |-> CreatePresentMode(presentModes, vsync)]
    /\ spc' = "selected"
    /\ UNCHANGED <<prog, queueVars, formatVars, surfCaps, width, height, requested,
                   handleVars, reportVars, surfaceVars, callVars, repeatVars,
                   frameVars, sceneVars, fatal>>

\* sample_main: swapchain_ci.minImageCount and swapchain_ci.presentMode
SelectMain ==
    /\ prog = "sample_main"
    /\ spc = "select"
    /\ swapchainCI' = [minImageCount |-> MainImageCount(surfCounts),
                       presentMode |-> MainPresentMode]
    /\ spc' = "selected"
    /\ UNCHANGED <<prog, queueVars, formatVars, surfCaps, width, height, requested,
                   handleVars, reportVars, surfaceVars, callVars, repeatVars,
                   frameVars, sceneVars, fatal>>

NextSelect ==
    \/ SelectCreate
    \/ SelectMain

SpecSelect == InitSelect /\ [][NextSelect]_vars

(***************************************************************************)
(* The swapchain object in use (specification SpecLife): after initSurface *)
(* the caller creates the swapchain from its own width and height,         *)
(* acquires and presents images, creates the swapchain again, and calls    *)
(* cleanup. The surface of a window that has a size reports it as          *)
(* currentExtent and can be resized between the calls.                     *)
(***************************************************************************)
\* the capabilities of the surface in use: the extent limits are fixed
LifeCapabilities ==
    {c \in SurfaceCapabilities :
        /\ c.minImageExtent = <<1, 1>>
        /\ c.maxImageExtent = <<MaxExtent, MaxExtent>>}

\* the images of the swapchain have the size the surface has now
ChainCurrent ==
    \/ surfaceNow.currentExtent[1] = UINT32_MAX
    \/ swapchainCI.imageExtent = surfaceNow.currentExtent

\* what fpAcquireNextImageKHR can return
AcquireResults ==
    IF ChainCurrent THEN {"VK_SUCCESS"}
    ELSE {"VK_ERROR_OUT_OF_DATE_KHR", "VK_SUBOPTIMAL_KHR"}

\* what fpQueuePresentKHR can return
PresentResults ==
    (IF ChainCurrent THEN {"VK_SUCCESS"}
     ELSE {"VK_ERROR_OUT_OF_DATE_KHR", "VK_SUBOPTIMAL_KHR"})
    \cup {"VK_ERROR_DEVICE_LOST"}

\* return fpAcquireNextImageKHR(...)
AcquireReturn(res) == res

\* queuePresent answering VK_SUCCESS whatever the driver returned
QueuePresentReturnSuccess(res) == "VK_SUCCESS"

\* return fpQueuePresentKHR(queue, &presentInfo)
QueuePresentReturn(res) == res

\* cleanup never destroying the image views
CleanupDestroysViewsNever == FALSE

\* cleanup: if (swapChain != VK_NULL_HANDLE), around the loop over the views
CleanupDestroysViews == swapChain # VK_NULL_HANDLE

\* cleanup: if (surface != VK_NULL_HANDLE), around the two destroy calls
CleanupDestroysChain == surface # VK_NULL_HANDLE

\* cleanup leaving the handle as it is
AfterCleanupKept(h) == h

\* cleanup: surface = VK_NULL_HANDLE; swapChain = VK_NULL_HANDLE;
AfterCleanup(h) == VK_NULL_HANDLE

InitLife ==
    /\ prog = "VulkanSwapChain"
    /\ spc = "ready"
    /\ queueProps = <<>>
    /\ graphicsQueueNodeIndex = 0
    /\ presentQueueNodeIndex = 0
    /\ queueNodeIndex = 0
    /\ surfaceFormats = <<>>
    /\ colorFormat = "VK_FORMAT_B8G8R8A8_UNORM"
    /\ colorSpace = "VK_COLOR_SPACE_SRGB_NONLINEAR_KHR"
    /\ surfCaps = <<>>
    /\ width \in 1 .. MaxExtent
    /\ height \in 1 .. MaxExtent
    /\ requested = <<>>
    /\ swapchainCI = <<>>
    /\ oldSwapchain = VK_NULL_HANDLE
    /\ swapChain = VK_NULL_HANDLE
    /\ imageCount = 0
    /\ buffers = <<>>
    /\ viewIndex = 0
    /\ liveSwapchains = {}
    /\ liveViews = {}
    /\ creates = 0
    /\ presentModes = <<"VK_PRESENT_MODE_FIFO_KHR">>
    /\ vsync = FALSE
    /\ surfCounts \in SetupImageCountLimits
    /\ surface = 1
    /\ liveSurface = TRUE
    /\ surfaceNow \in LifeCapabilities
    /\ lastCall = "none"
    /\ driverStatus = "none"
    /\ lastResult = "none"
    /\ lastArgs = <<>>
    /\ repeatCall = FALSE
    /\ FrameIdle
    /\ SceneIdle
    /\ fatal = FALSE

\* the caller calls create(&width, &height, vsync)
LifeCreateBegin ==
    /\ liveSurface
    /\ \E err \in VkResults : CreateBeginWith(width, height, surfaceNow, err)
    /\ lastArgs' = <<width, height, surfaceNow, lastCall, lastResult>>
    /\ repeatCall' = /\ swapChain # VK_NULL_HANDLE
                     /\ lastCall = "none"
                     /\ lastArgs = lastArgs'

\* the window is resized: the surface reports another current extent
SurfaceResize ==
    /\ ~fatal
    /\ spc = "ready"
    /\ liveSurface
    /\ surfaceNow.currentExtent[1] # UINT32_MAX
    /\ \E c \in LifeCapabilities :
         /\ c.currentExtent[1] # UINT32_MAX
         /\ c # surfaceNow
         /\ surfaceNow' = c
    /\ UNCHANGED <<prog, spc, queueVars, formatVars, extentVars, handleVars,
                   reportVars, surface, liveSurface, callVars, repeatVars,
                   frameVars, sceneVars, fatal>>

\* acquireNextImage(presentCompleteSemaphore, &imageIndex)
AcquireNextImage ==
    /\ ~fatal
    /\ spc = "ready"
    /\ swapChain \in liveSwapchains
    /\ ~(lastCall = "acquire" /\ lastResult \in {"VK_SUCCESS", "VK_SUBOPTIMAL_KHR"})
    /\ lastResult # "VK_ERROR_DEVICE_LOST"
    /\ \E res \in AcquireResults :
         /\ driverStatus' = res
         /\ lastResult' = AcquireReturn(res)
    /\ lastCall' = "acquire"
    /\ UNCHANGED <<prog, spc, queueVars, formatVars, extentVars, handleVars,
                   reportVars, surfaceVars, repeatVars, frameVars, sceneVars, fatal>>

\* queuePresent(queue, imageIndex, waitSemaphore)
QueuePresent ==
    /\ ~fatal
    /\ spc = "ready"
    /\ swapChain \in liveSwapchains
    /\ lastCall = "acquire"
    /\ lastResult \in {"VK_SUCCESS", "VK_SUBOPTIMAL_KHR"}
    /\ \E res \in PresentResults :
         /\ driverStatus' = res
         /\ lastResult' = QueuePresentReturn(res)
    /\ lastCall' = "present"
    /\ UNCHANGED <<prog, spc, queueVars, formatVars, extentVars, handleVars,
                   reportVars, surfaceVars, repeatVars, frameVars, sceneVars, fatal>>

\* the caller calls cleanup(), also after an earlier cleanup()
CleanupBegin ==
    /\ ~fatal
    /\ spc \in {"ready", "cleaned"}
    /\ spc' = "cleanupViews"
    /\ viewIndex' = 0
    /\ UNCHANGED <<prog, queueVars, formatVars, extentVars, oldSwapchain, swapChain,
                   imageCount, buffers, liveSwapchains, liveViews, creates,
                   reportVars, surfaceVars, callVars, repeatVars, frameVars, sceneVars, fatal>>

\* cleanup: one pass of the loop that destroys buffers[i].view, or its end
CleanupView ==
    /\ ~fatal
    /\ spc = "cleanupViews"
    /\ IF CleanupDestroysViews /\ viewIndex < imageCount
       THEN /\ liveViews' = liveViews \ {buffers[viewIndex + 1]}
            /\ viewIndex' = viewIndex + 1
            /\ UNCHANGED spc
       ELSE /\ spc' = "cleanupChain"
            /\ UNCHANGED <<liveViews, viewIndex>>
    /\ UNCHANGED <<prog, queueVars, formatVars, extentVars, oldSwapchain, swapChain,
                   imageCount, buffers, liveSwapchains, creates,
                   reportVars, surfaceVars, callVars, repeatVars, frameVars, sceneVars, fatal>>

\* cleanup: fpDestroySwapchainKHR(device, swapChain, nullptr)
CleanupChain ==
    /\ ~fatal
    /\ spc = "cleanupChain"
    /\ liveSwapchains' = IF CleanupDestroysChain
                         THEN liveSwapchains \ {swapChain}
                         ELSE liveSwapchains
    /\ spc' = "cleanupSurface"
    /\ UNCHANGED <<prog, queueVars, formatVars, extentVars, oldSwapchain, swapChain,
                   imageCount, buffers, viewIndex, liveViews, creates,
                   reportVars, surfaceVars, callVars, repeatVars, frameVars, sceneVars, fatal>>

\* cleanup: vkDestroySurfaceKHR(instance, surface, nullptr); surface and swapChain
\* are set to VK_NULL_HANDLE
CleanupSurface ==
    /\ ~fatal
    /\ spc = "cleanupSurface"
    /\ liveSurface' = IF CleanupDestroysChain THEN FALSE ELSE liveSurface
    /\ surface' = AfterCleanup(surface)
    /\ swapChain' = AfterCleanup(swapChain)
    /\ spc' = "cleaned"
    /\ UNCHANGED <<prog, queueVars, formatVars, extentVars, oldSwapchain,
                   imageCount, buffers, viewIndex, liveSwapchains, liveViews,
                   creates, reportVars, surfaceNow, callVars, repeatVars,
                   frameVars, sceneVars, fatal>>

NextLife ==
    \/ LifeCreateBegin
    \/ CreateSwapchain
    \/ DestroyOld
    \/ GetImages
    \/ CreateView
    \/ SurfaceResize
    \/ AcquireNextImage
    \/ QueuePresent
    \/ CleanupBegin
    \/ CleanupView
    \/ CleanupChain
    \/ CleanupSurface

SpecLife == InitLife /\ [][NextLife]_vars

(***************************************************************************)
(* Claims about the renderer (specification Spec)                          *)
(***************************************************************************)
Range(list) == {list[k] : k \in 1 .. Len(list)}

\* place of object (t, i) in worker-major, slot-minor order
Rank(o) == o[1] * numObjectsPerThread + o[2]

WorkerMajor(list) ==
    \A j, k \in 1 .. Len(list) : j < k => Rank(list[j]) < Rank(list[k])

WorkersQuiet == \A t \in Threads : jobQueue[t] = <<>> /\ wpc[t] = "idle"

\* C1: an object whose frustum test of this frame reported it invisible has no
\* secondary command buffer in the list handed to vkCmdExecuteCommands for the frame.
C1_InvisibleNotExecuted ==
    \A o \in Objects :
        tested[o] = "invisible" =>
            /\ o \notin Range(executed)
            /\ pc = "execute" => o \notin Range(commandBuffers)

C1_Witness ==
    /\ pc = "endPrimary"
    /\ executed # <<>>
    /\ \E o \in Objects : tested[o] = "invisible"

\* C2: the assembled list holds exactly the buffers of the objects this frame's
\* tasks reported visible, in worker-major, slot-minor order, whatever order the
\* tasks completed in; with every object visible it has numThreads *
\* numObjectsPerThread entries.
C2_ListIsOrderedVisibleSet ==
    pc = "execute" =>
        /\ Range(commandBuffers) = {o \in Objects : tested[o] = "visible"}
        /\ WorkerMajor(commandBuffers)
        /\ (\A o \in Objects : tested[o] = "visible") =>
               Len(commandBuffers) = numThreads * numObjectsPerThread

C2_Witness ==
    /\ pc = "execute"
    /\ numThreads > 1
    /\ numObjectsPerThread > 1
    /\ Len(commandBuffers) = numThreads * numObjectsPerThread

\* C3: while the primary thread assembles the list, executes the secondary buffers
\* or ends the primary buffer, every task dispatched in the frame has finished: no
\* task is queued or running.
C3_AssemblyAfterJoin ==
    pc \in {"assemble", "execute", "endPrimary"} =>
        /\ WorkersQuiet
        /\ \A o \in Objects : tested[o] # "none"

C3_Witness ==
    /\ pc = "assemble"
    /\ numThreads > 1
    /\ WorkersQuiet
    /\ \E o \in Objects : tested[o] = "visible"
    /\ \E o \in Objects : tested[o] = "invisible"

\* C4 as claimed: a primary submission that the device has not finished, or whose
\* fence has not been waited on successfully, exists only while draw() waits for
\* the fence: no task is dispatched, queued or running and no command buffer is
\* re-recorded before the fence signalled by that submission has been waited on.
C4_FenceGatesNextFrame ==
    (submitState = "pending" \/ gpuBusy) => (pc = "waitFence" /\ WorkersQuiet)

\* the slots objectData[i], commandBuffer[i] that worker t was given
SlotsOf(t) == {o[2] : o \in {x \in DOMAIN visible : x[1] = t}}

\* C18: the per-worker object count is M = total / W (integer division); every
\* worker has exactly M object slots, each slot belongs to one worker and is
\* queued on that worker only, at most once in a frame, and the W * M assigned
\* objects never exceed the total.
C18_StaticPartition ==
    /\ numThreads >= 1
    /\ numThreads * numObjectsPerThread <= TotalObjects
    /\ TotalObjects - numThreads * numObjectsPerThread < numThreads
    /\ Cardinality(DOMAIN visible) = numThreads * numObjectsPerThread
    /\ DOMAIN jobQueue = 0 .. numThreads - 1
    /\ \A t \in DOMAIN jobQueue :
          /\ Cardinality(SlotsOf(t)) = numObjectsPerThread
          /\ SlotsOf(t) = 0 .. numObjectsPerThread - 1
          /\ \A k \in 1 .. Len(jobQueue[t]) :
                /\ jobQueue[t][k] \in SlotsOf(t)
                /\ \A l \in 1 .. Len(jobQueue[t]) :
                      jobQueue[t][k] = jobQueue[t][l] => k = l

C18_Witness ==
    /\ numThreads = 2
    /\ numThreads * numObjectsPerThread < TotalObjects
    /\ pc = "wait"
    /\ \A t \in Threads : Len(jobQueue[t]) = numObjectsPerThread

RecordingCalls ==
    {"vkBeginCommandBuffer(primaryCommandBuffer)",
     "vkEndCommandBuffer(primaryCommandBuffer)",
     "vkBeginCommandBuffer(cmdBuffer)", "vkEndCommandBuffer(cmdBuffer)"}

\* C19: when beginning or ending the primary command buffer or a secondary
\* command buffer returns a failure, the process ends there: the primary command
\* buffer of that frame is not submitted and the frame is not presented.
C19_RecordingFailureEndsFrame ==
    failedCall \in RecordingCalls =>
        /\ fatal
        /\ pc \in {"beginPrimary", "dispatch", "wait", "endPrimary"}
        /\ submitState # "pending"

C19_Witness ==
    /\ failedCall = "vkEndCommandBuffer(cmdBuffer)"
    /\ fatal
    /\ pc = "wait"
    /\ submitState = "waited"

AfterDispatch == {"wait", "assemble", "execute", "endPrimary"}

AfterJoin ==
    {"assemble", "execute", "endPrimary", "submit", "waitFence", "resetFence",
     "submit2", "submitFrame", "updateMatrices"}

AllFinished == \A o \in Objects : taskLog[o].finished = 1

\* the object whose data the job at the front of worker t's queue works on
Current(t) == JobTarget(t, Head(jobQueue[t]))

\* C21: in each frame exactly one job is added for every (worker t, slot i), on
\* worker t's own queue; the job writes only the data of slot i of worker t, so
\* no two jobs that run at the same time work on the same command buffer, push
\* constant block or object record, and no worker records with another worker's
\* thread data.
C21_OneJobPerSlotOnOwnQueue ==
    /\ [](/\ \A o \in Objects : taskLog[o].added <= 1 /\ taskLog[o].started <= 1
          /\ pc \in AfterDispatch => \A o \in Objects : taskLog[o].added = 1
          /\ \A t \in Threads : \A k \in 1 .. Len(jobQueue[t]) :
                JobTarget(t, jobQueue[t][k]) \in {t} \X Slots
          /\ \A t, u \in Threads :
                (t # u /\ jobQueue[t] # <<>> /\ jobQueue[u] # <<>>) =>
                    Current(t) # Current(u))
    /\ [][\A o \in Objects :
             (pc # "beginPrimary" /\ (visible'[o] # visible[o] \/ tested'[o] # tested[o]))
                => \E t \in Threads : jobQueue[t] # <<>> /\ o = <<t, Head(jobQueue[t])>>]_vars

C21_Witness ==
    /\ numThreads = 2
    /\ pc = "wait"
    /\ \A t \in Threads : wpc[t] = "record"
    /\ Current(0) = <<0, 1>>
    /\ Current(1) = <<1, 0>>

\* C22: every job added in a frame is started exactly once and finishes: none is
\* dropped, and when every worker thread goes on, threadPool.wait() returns and
\* the frame reaches the assembly, unless the process has been terminated.
C22_EveryJobRunsOnce ==
    /\ [](pc \in AfterJoin =>
             \A o \in Objects :
                /\ taskLog[o].added = 1
                /\ taskLog[o].started = 1
                /\ taskLog[o].finished = 1)
    /\ (pc = "wait") ~> (pc = "assemble" \/ fatal)

C22_Witness ==
    /\ pc = "assemble"
    /\ numThreads = 2
    /\ AllFinished
    /\ \E o \in Objects : taskLog[o].recorded = 1
    /\ \E o \in Objects : taskLog[o].recorded = 0

\* C23: the frustum, which every job reads, is written only by updateMatrices on
\* the primary thread, when no job of a frame is queued or running: after draw()
\* has returned or between two calls of render().
C23_SharedStateNotWrittenWhileRecording ==
    [][frustum' # frustum =>
          /\ WorkersQuiet
          /\ pc \in {"updateMatrices", "prepareFrame"}]_vars

C23_Witness ==
    /\ pc = "prepareFrame"
    /\ submitState = "waited"
    /\ \E o \in Objects : tested[o] = "visible" /\ o \notin frustum

\* C24 as claimed: every submission that carries renderFence is made while
\* the fence is unsignalled and no earlier primary submission is outstanding, a
\* submission is in flight only while draw() waits for the fence, a wait result
\* other than success and timeout is fatal, and the fence is unsignalled again
\* when draw() goes on after the wait.
C24_FenceCycle ==
    /\ pc = "submit" => renderFence = "unsignaled" /\ ~gpuBusy /\ submitState # "pending"
    /\ gpuBusy => pc = "waitFence"
    /\ renderFence = "signaled" => pc \in {"waitFence", "resetFence"}
    /\ failedCall = "vkWaitForFences" => fatal /\ pc = "waitFence"

DrawOrder ==
    {<<"prepareFrame", "beginPrimary">>, <<"beginPrimary", "dispatch">>,
     <<"dispatch", "wait">>, <<"wait", "assemble">>, <<"assemble", "execute">>,
     <<"execute", "endPrimary">>, <<"endPrimary", "submit">>,
     <<"submit", "waitFence">>, <<"waitFence", "resetFence">>,
     <<"resetFence", "submit2">>, <<"submit2", "submitFrame">>,
     <<"submitFrame", "updateMatrices">>, <<"updateMatrices", "prepareFrame">>}

\* C25: in every frame draw() acquires the image, records (dispatch, join,
\* assembly), submits the primary command buffer with the fence, waits for the
\* fence, makes the second submission and presents, in this order and without
\* leaving a step out; the second submission and the present come after the
\* successful wait for the fence of the same frame.
C25_DrawOrder ==
    /\ [][pc' # pc => <<pc, pc'>> \in DrawOrder]_vars
    /\ [](pc \in {"resetFence", "submit2", "submitFrame"} => submitState = "waited")
    /\ [](pc \in {"prepareFrame", "beginPrimary", "dispatch", "wait", "assemble",
                  "execute", "endPrimary", "submit"} => submitState # "pending")

C25_Witness ==
    /\ pc = "submitFrame"
    /\ submitState = "waited"
    /\ executed # <<>>
    /\ ~fatal

\* C27: every secondary command buffer executed in a frame was begun and ended in
\* that frame by the job that set its object's visible flag to true; a recording
\* of an earlier frame is not executed.
C27_ExecutedWereRecordedThisFrame ==
    /\ pc = "execute" =>
          \A o \in Range(commandBuffers) :
             taskLog[o].recorded = 1 /\ tested[o] = "visible"
    /\ \A o \in Range(executed) : taskLog[o].recorded = 1 /\ tested[o] = "visible"
    /\ pc \in AfterJoin =>
          \A o \in Objects : taskLog[o].recorded = 0 => ~visible[o]

C27_Witness ==
    /\ pc = "endPrimary"
    /\ submitState = "waited"
    /\ executed # <<>>
    /\ \E o \in Objects : taskLog[o].recorded = 0
    /\ \A o \in Range(executed) : taskLog[o].recorded = 1

(***************************************************************************)
(* Claims about the selections (specification SpecSelect)                  *)
(***************************************************************************)
\* C14: VulkanSwapChain::create selects FIFO when vsync is requested; without
\* vsync it selects mailbox when mailbox is anywhere in the list, otherwise
\* immediate when immediate is in the list, otherwise FIFO.
C14_PresentModePreference ==
    (prog = "VulkanSwapChain" /\ spc = "selected") =>
        swapchainCI.presentMode =
            IF vsync THEN "VK_PRESENT_MODE_FIFO_KHR"
            ELSE IF "VK_PRESENT_MODE_MAILBOX_KHR" \in Range(presentModes)
                 THEN "VK_PRESENT_MODE_MAILBOX_KHR"
            ELSE IF "VK_PRESENT_MODE_IMMEDIATE_KHR" \in Range(presentModes)
                 THEN "VK_PRESENT_MODE_IMMEDIATE_KHR"
            ELSE "VK_PRESENT_MODE_FIFO_KHR"

C14_Witness ==
    /\ prog = "VulkanSwapChain"
    /\ spc = "selected"
    /\ ~vsync
    /\ presentModes = <<"VK_PRESENT_MODE_IMMEDIATE_KHR", "VK_PRESENT_MODE_FIFO_KHR",
                        "VK_PRESENT_MODE_MAILBOX_KHR">>
    /\ swapchainCI.presentMode = "VK_PRESENT_MODE_MAILBOX_KHR"

\* minImageCount + 1, reduced to maxImageCount when that is non-zero and smaller
MinPlusOneClamped(counts) ==
    IF counts[2] # 0 /\ counts[2] < counts[1] + 1 THEN counts[2] ELSE counts[1] + 1

WithinImageCountLimits(n, counts) ==
    /\ n >= counts[1]
    /\ counts[2] # 0 => n <= counts[2]

\* C15 as amended: VulkanSwapChain::create requests minImageCount + 1 images,
\* reduced to maxImageCount when maxImageCount is non-zero and smaller;
\* sample_main requests exactly minImageCount. Either request is never below
\* minImageCount and never above a non-zero maxImageCount.
C15_RequestedImageCount ==
    spc = "selected" =>
        /\ prog = "VulkanSwapChain" =>
              swapchainCI.minImageCount = MinPlusOneClamped(surfCounts)
        /\ prog = "sample_main" => swapchainCI.minImageCount = surfCounts[1]
        /\ WithinImageCountLimits(swapchainCI.minImageCount, surfCounts)

C15_Witness ==
    /\ prog = "VulkanSwapChain"
    /\ spc = "selected"
    /\ surfCounts = <<2, 2>>
    /\ swapchainCI.minImageCount = 2

\* C15 as claimed: the image count requested for the swapchain is
\* minImageCount + 1, reduced to maxImageCount when that is non-zero and smaller,
\* and lies within the limits.
C15_Original ==
    spc = "selected" =>
        /\ swapchainCI.minImageCount = MinPlusOneClamped(surfCounts)
        /\ WithinImageCountLimits(swapchainCI.minImageCount, surfCounts)

(***************************************************************************)
(* Claims about the set-up (specification SpecSetup)                       *)
(***************************************************************************)
\* the families, numbered from 0, with the graphics flag, with present support,
\* with both
GraphicsFamilies(props) == {i \in 0 .. Len(props) - 1 : props[i + 1].graphics}

PresentFamilies(props) == {i \in 0 .. Len(props) - 1 : props[i + 1].present}

CombinedFamilies(props) == GraphicsFamilies(props) \cap PresentFamilies(props)

Lowest(S) == CHOOSE m \in S : \A x \in S : m <= x

\* only graphics-only and present-only families, at least one of each
DisjointFamilies(props) ==
    /\ CombinedFamilies(props) = {}
    /\ GraphicsFamilies(props) # {}
    /\ PresentFamilies(props) # {}
    /\ GraphicsFamilies(props) \cup PresentFamilies(props) = 0 .. Len(props) - 1

\* create() runs on an object that already has a swapchain
Recreating ==
    /\ prog = "VulkanSwapChain"
    /\ spc \in {"createSwapchain", "destroyOld", "getImages", "createViews"}
    /\ oldSwapchain # VK_NULL_HANDLE

OldViewsLive == \E v \in liveViews : v[1] = oldSwapchain

\* C5 as amended: during recreation the old chain and its image views are destroyed
\* only after the new swapchain has been created successfully, and before the
\* images of the new chain are fetched and its image views created; the object
\* always holds a live swapchain handle.
C5_OldDestroyedAfterNewChain ==
    Recreating =>
        /\ swapChain \in liveSwapchains
        /\ spc \in {"createSwapchain", "destroyOld"} =>
              /\ oldSwapchain \in liveSwapchains
              /\ BufferViews \subseteq liveViews
        /\ spc = "destroyOld" => swapChain # oldSwapchain
        /\ spc \in {"getImages", "createViews"} =>
              /\ oldSwapchain \notin liveSwapchains
              /\ ~OldViewsLive
              /\ swapChain # oldSwapchain

C5_Witness ==
    /\ Recreating
    /\ spc = "getImages"
    /\ oldSwapchain \notin liveSwapchains
    /\ ~OldViewsLive
    /\ swapChain \in liveSwapchains

\* C5 as claimed: during recreation the old chain and its views are destroyed only
\* after the new swapchain and all of its image views have been created.
C5_Original ==
    (Recreating /\ (oldSwapchain \notin liveSwapchains \/ ~OldViewsLive)) =>
        /\ swapChain \in liveSwapchains
        /\ swapChain # oldSwapchain
        /\ \A k \in 0 .. imageCount - 1 : <<swapChain, k>> \in liveViews

\* C6: when some family has the graphics flag and present support, queue selection
\* ends with the graphics index equal to the present index, the lowest-numbered
\* such family, in initSurface and in sample_main.
C6_CombinedFamilySelected ==
    (queueProps # <<>> /\ CombinedFamilies(queueProps) # {}) =>
        /\ ~fatal
        /\ graphicsQueueNodeIndex = Lowest(CombinedFamilies(queueProps))
        /\ presentQueueNodeIndex = graphicsQueueNodeIndex
        /\ prog = "VulkanSwapChain" => queueNodeIndex = graphicsQueueNodeIndex

C6_Witness ==
    /\ prog = "sample_main"
    /\ spc = "mainFormats"
    /\ Len(queueProps) = 2
    /\ queueProps[1].present /\ ~queueProps[1].graphics
    /\ queueProps[2].present /\ queueProps[2].graphics
    /\ graphicsQueueNodeIndex = 1
    /\ presentQueueNodeIndex = 1

C8_MissingRoleIsFatal ==
    /\ (queueProps # <<>> /\ (GraphicsFamilies(queueProps) = {}
                              \/ PresentFamilies(queueProps) = {})) => fatal
    /\ spc \notin {"initSurface", "main"} =>
          /\ graphicsQueueNodeIndex # UINT32_MAX
          /\ presentQueueNodeIndex # UINT32_MAX

C8_Witness ==
    /\ prog = "sample_main"
    /\ fatal
    /\ spc = "main"
    /\ GraphicsFamilies(queueProps) # {}
    /\ PresentFamilies(queueProps) = {}
    /\ presentQueueNodeIndex = UINT32_MAX

Between(v, lo, hi) == lo <= v /\ v <= hi

\* C9 as claimed: the extent the swapchain is created with lies within
\* [minImageExtent, maxImageExtent] in each dimension; where the requested size is
\* used (the current extent is undefined), a requested dimension below the minimum
\* yields the minimum and one above the maximum yields the maximum.
C9_ExtentClamped ==
    (surfCaps # <<>> /\ swapchainCI # <<>>) =>
        \A d \in {1, 2} :
           /\ Between(swapchainCI.imageExtent[d],
                      surfCaps.minImageExtent[d], surfCaps.maxImageExtent[d])
           /\ surfCaps.currentExtent[1] = UINT32_MAX =>
                 /\ requested[d] < surfCaps.minImageExtent[d] =>
                       swapchainCI.imageExtent[d] = surfCaps.minImageExtent[d]
                 /\ requested[d] > surfCaps.maxImageExtent[d] =>
                       swapchainCI.imageExtent[d] = surfCaps.maxImageExtent[d]

SingleUndefined(fmts) == Len(fmts) = 1 /\ fmts[1].format = "VK_FORMAT_UNDEFINED"

\* C10 as amended: when the surface reports the single format VK_FORMAT_UNDEFINED,
\* format selection does not fail and chooses VK_FORMAT_B8G8R8A8_UNORM in
\* initSurface and in sample_main; the colour space is the non-linear sRGB one in
\* sample_main, which always uses it, and in initSurface it is the colour space
\* reported with that single entry.
C10_UndefinedFormatDefault ==
    /\ (surfaceFormats # <<>> /\ SingleUndefined(surfaceFormats)) =>
          /\ ~fatal
          /\ colorFormat = "VK_FORMAT_B8G8R8A8_UNORM"
          /\ prog = "VulkanSwapChain" => colorSpace = surfaceFormats[1].colorSpace
    /\ (prog = "sample_main" /\ swapchainCI # <<>>) =>
          /\ swapchainCI.imageColorSpace = "VK_COLOR_SPACE_SRGB_NONLINEAR_KHR"
          /\ swapchainCI.imageFormat = colorFormat

C10_Witness ==
    /\ prog = "VulkanSwapChain"
    /\ spc = "ready"
    /\ SingleUndefined(surfaceFormats)
    /\ surfaceFormats[1].colorSpace = "VK_COLOR_SPACE_DISPLAY_P3_NONLINEAR_EXT"
    /\ colorFormat = "VK_FORMAT_B8G8R8A8_UNORM"
    /\ colorSpace = "VK_COLOR_SPACE_DISPLAY_P3_NONLINEAR_EXT"

\* C10 as claimed: with the single format VK_FORMAT_UNDEFINED the chosen format is
\* VK_FORMAT_B8G8R8A8_UNORM with the non-linear sRGB colour space, in initSurface
\* and in sample_main.
C10_Original ==
    /\ (surfaceFormats # <<>> /\ SingleUndefined(surfaceFormats)) =>
          /\ ~fatal
          /\ colorFormat = "VK_FORMAT_B8G8R8A8_UNORM"
          /\ prog = "VulkanSwapChain" =>
                colorSpace = "VK_COLOR_SPACE_SRGB_NONLINEAR_KHR"
    /\ (prog = "sample_main" /\ swapchainCI # <<>>) =>
          swapchainCI.imageColorSpace = "VK_COLOR_SPACE_SRGB_NONLINEAR_KHR"

\* C16 as claimed: when the driver reports no surface format or no present mode,
\* set-up ends fatally before a format is chosen or a swapchain is created: a
\* chosen format comes from a list that is not empty, and with an empty list of
\* present modes no create info is filled in and no swapchain exists.
C16_EmptyReportsAreFatal ==
    /\ (colorFormat # "unset" /\ spc \in {"ready", "mainExtent"}
          /\ swapchainCI = <<>> /\ ~fatal) =>
          Len(surfaceFormats) > 0
    /\ presentModes = <<>> =>
          /\ swapchainCI = <<>>
          /\ liveSwapchains = {}
          /\ spc \notin {"initSurface", "initSurfaceFormats", "ready",
                         "main", "mainFormats", "mainExtent"} => fatal

\* C20 as claimed: a driver call that returns a failure is followed by the fatal
\* state before the next driver call; here the call that creates the surface in
\* initSurface, after which the queue families and the surface formats are queried.
C20_EveryStatusChecked ==
    (prog = "VulkanSwapChain" /\ spc # "initSurface" /\ ~liveSurface) => fatal

(***************************************************************************)
(* Claims about the swapchain in use (specification SpecLife)              *)
(***************************************************************************)
\* the swapchain handle is a live swapchain and every buffer holds a live view of it
ValidChain ==
    /\ swapChain \in liveSwapchains
    /\ imageCount >= 1
    /\ Len(buffers) = imageCount
    /\ \A k \in 1 .. imageCount :
          buffers[k] = <<swapChain, k - 1>> /\ buffers[k] \in liveViews

AfterOutOfDate == lastCall = "present" /\ lastResult = "VK_ERROR_OUT_OF_DATE_KHR"

CreateReturns == spc = "createViews" /\ spc' = "ready"

AcquireStep == lastCall' = "acquire" /\ <<lastCall, lastResult>> # <<lastCall', lastResult'>>

PresentStep == lastCall' = "present" /\ lastCall = "acquire"

\* C11: after queuePresent returned VK_ERROR_OUT_OF_DATE_KHR, a create called with
\* the width and height the caller last used returns with a valid swapchain and
\* valid views whose extent is the one the surface has now, written back to the
\* caller's width and height, and the acquireNextImage that follows succeeds.
C11_RecreateAfterOutOfDate ==
    /\ [][(AfterOutOfDate /\ CreateReturns) =>
             /\ ValidChain'
             /\ ChainCurrent'
             /\ <<width', height'>> = swapchainCI'.imageExtent
             /\ ~fatal']_vars
    /\ [][(AfterOutOfDate /\ ValidChain /\ ChainCurrent /\ AcquireStep) =>
             lastResult' = "VK_SUCCESS" /\ ~fatal']_vars

C11_Witness ==
    /\ spc = "ready"
    /\ lastCall = "acquire"
    /\ lastResult = "VK_SUCCESS"
    /\ creates = 2
    /\ <<lastArgs[4], lastArgs[5]>> = <<"present", "VK_ERROR_OUT_OF_DATE_KHR">>
    /\ ValidChain
    /\ ChainCurrent
    /\ <<lastArgs[1], lastArgs[2]>> # swapchainCI.imageExtent

\* C12: queuePresent returns the status of the driver's present call unchanged,
\* whatever the status is, does not terminate the process and leaves the swapchain
\* handle, the image count and the views as they were.
C12_PresentReturnsDriverStatus ==
    [][PresentStep =>
          /\ lastResult' = driverStatus'
          /\ ~fatal'
          /\ UNCHANGED <<swapChain, imageCount, buffers, liveViews, liveSwapchains>>]_vars

C12_Witness ==
    /\ lastCall = "present"
    /\ driverStatus = "VK_ERROR_DEVICE_LOST"
    /\ lastResult = "VK_ERROR_DEVICE_LOST"
    /\ ~fatal
    /\ ValidChain

\* the fields of the VkSwapchainCreateInfoKHR other than oldSwapchain
Request(ci) ==
    [minImageCount |-> ci.minImageCount, imageExtent |-> ci.imageExtent,
     imageFormat |-> ci.imageFormat, imageColorSpace |-> ci.imageColorSpace,
     presentMode |-> ci.presentMode]

RepeatedCreateBegins == spc = "ready" /\ spc' = "createSwapchain" /\ repeatCall'

RepeatedGetImages == repeatCall /\ spc = "getImages" /\ spc' = "createViews"

C17_CleanupOrder ==
    /\ \A v \in liveViews : v[1] \in liveSwapchains
    /\ liveSwapchains # {} => liveSurface
    /\ spc = "cleanupChain" => liveViews = {}
    /\ spc = "cleanupSurface" => liveSwapchains = {}
    /\ spc = "cleaned" => liveViews = {} /\ liveSwapchains = {} /\ ~liveSurface

C17_Witness ==
    /\ spc = "cleanupSurface"
    /\ swapChain # VK_NULL_HANDLE
    /\ imageCount = 2
    /\ creates = 2
    /\ liveViews = {}
    /\ liveSwapchains = {}
    /\ liveSurface

\* C28: over creates followed by cleanups every image view and every swapchain
\* that was created is destroyed exactly once: a destroy call is made for a live
\* object only, the handles the object holds between the calls are live, nothing
\* is left when cleanup has returned, and a further cleanup destroys nothing.
C28_DestroyedExactlyOnce ==
    /\ [](/\ (spc = "cleanupViews" /\ CleanupDestroysViews /\ viewIndex < imageCount) =>
                buffers[viewIndex + 1] \in liveViews
          /\ (spc = "cleanupChain" /\ CleanupDestroysChain
                  /\ swapChain # VK_NULL_HANDLE) =>
                swapChain \in liveSwapchains
          /\ (spc = "destroyOld" /\ oldSwapchain # VK_NULL_HANDLE) =>
                oldSwapchain \in liveSwapchains /\ BufferViews \subseteq liveViews
          /\ (spc = "ready" /\ swapChain # VK_NULL_HANDLE) =>
                swapChain \in liveSwapchains /\ BufferViews \subseteq liveViews
          /\ spc = "cleaned" =>
                liveViews = {} /\ liveSwapchains = {} /\ swapChain = VK_NULL_HANDLE)
    /\ [][surface = VK_NULL_HANDLE =>
             UNCHANGED <<liveViews, liveSwapchains, liveSurface>>]_vars

C28_Witness ==
    /\ spc = "cleaned"
    /\ creates = 2
    /\ imageCount = 2
    /\ viewIndex = 0
    /\ liveViews = {}
    /\ liveSwapchains = {}
    /\ ~liveSurface

(***************************************************************************)
(* Scene of test04/source/vulkanchromedemo.cpp: loadMaterials, loadMeshes,  *)
(* render, and the keys of VulkanExample::keyPressed that select what       *)
(* render draws                                                            *)
(***************************************************************************)
\* A material name is a sequence of pieces; a piece is one of the two words
\* the code searches for, or one other character.
Pieces == {"alpha", "mask", "x"}

PieceLen(piece) == IF piece = "alpha" THEN 5 ELSE IF piece = "mask" THEN 4 ELSE 1

Names == {<<>>} \cup {<<a>> : a \in Pieces} \cup {<<a, b>> : a, b \in Pieces}

RECURSIVE FindFrom(_, _, _, _)
FindFrom(name, word, k, offset) ==
    IF k > Len(name) THEN -1
    ELSE IF name[k] = word THEN offset
    ELSE FindFrom(name, word, k + 1, offset + PieceLen(name[k]))

\* int val = name.find(word): the offset of the first occurrence, or
\* std::string::npos converted to int, which is -1
Find(name, word) == FindFrom(name, word, 1, 0)

\* loadMaterials: "Assign pipeline"
AssignPipeline(name) ==
    IF Find(name, "alpha") >= 0 THEN "blending"
    ELSE IF Find(name, "mask") >= 0 THEN "bg"
    ELSE "solid"

\* meshes[i].material of the source
MeshMaterial(i) == materials[meshes[i + 1]]

NoMeshIds == [bg |-> <<>>, alpha |-> <<>>, nonAlpha |-> <<>>]

\* the first loop of Scene::render, from mesh i on
RECURSIVE RenderLoop(_, _, _, _)
RenderLoop(i, single, index, ids) ==
    IF i >= Len(meshes) THEN ids
    ELSE IF single /\ i # index THEN RenderLoop(i + 1, single, index, ids)
    ELSE IF Find(MeshMaterial(i).name, "alpha") > 0
        THEN RenderLoop(i + 1, single, index, [ids EXCEPT !.alpha = Append(@, i)])
    ELSE IF Find(MeshMaterial(i).name, "mask") > 0
        THEN RenderLoop(i + 1, single, index, [ids EXCEPT !.bg = Append(@, i)])
    ELSE RenderLoop(i + 1, single, index, [ids EXCEPT !.nonAlpha = Append(@, i)])

\* Scene::render with the given renderSingleScenePart and scenePartIndex:
\* the three vectors, then the three loops of RenderMesh calls
SceneRender(single, index) ==
    LET ids == RenderLoop(0, single, index, NoMeshIds)
    IN  /\ bgMeshIds' = ids.bg
        /\ alphaMeshIds' = ids.alpha
        /\ nonAlphaMeshIds' = ids.nonAlpha
        /\ drawn' = ids.bg \o ids.nonAlpha \o ids.alpha

\* buildCommandBuffers: vkBeginCommandBuffer and vkEndCommandBuffer are checked
BuildOutcomes == {"built", "beginFailed", "endFailed"}

\* buildCommandBuffers; every draw command buffer gets the same render
BuildCommandBuffersWith(single, index) ==
    \E outcome \in BuildOutcomes :
        /\ fatal' = (outcome # "built")
        /\ IF outcome = "beginFailed"
           THEN UNCHANGED <<bgMeshIds, alphaMeshIds, nonAlphaMeshIds, drawn>>
           ELSE SceneRender(single, index)

\* Scene::loadMaterials: the scene file has 1..MaxMaterials materials
LoadMaterials ==
    /\ ~fatal
    /\ scenePc = "loadMaterials"
    /\ \E n \in 1 .. MaxMaterials : \E names \in [1 .. n -> Names] :
        materials' = [k \in 1 .. n |->
                        [name |-> names[k], pipeline |-> AssignPipeline(names[k])]]
    /\ scenePc' = "loadMeshes"
    /\ UNCHANGED <<meshes, renderSingleScenePart, scenePartIndex, bgMeshIds,
                   alphaMeshIds, nonAlphaMeshIds, drawn, frameVars, setupVars, fatal>>

\* Scene::loadMeshes: the scene file has 1..MaxMeshes meshes, each with the
\* index of its material
LoadMeshes ==
    /\ ~fatal
    /\ scenePc = "loadMeshes"
    /\ \E n \in 1 .. MaxMeshes :
        meshes' \in [1 .. n -> 1 .. Len(materials)]
    /\ scenePc' = "build"
    /\ UNCHANGED <<materials, renderSingleScenePart, scenePartIndex, bgMeshIds,
                   alphaMeshIds, nonAlphaMeshIds, drawn, frameVars, setupVars, fatal>>

\* VulkanExample::prepare calls buildCommandBuffers
BuildCommandBuffers ==
    /\ ~fatal
    /\ scenePc = "build"
    /\ BuildCommandBuffersWith(renderSingleScenePart, scenePartIndex)
    /\ scenePc' = "ready"
    /\ UNCHANGED <<materials, meshes, renderSingleScenePart, scenePartIndex,
                   frameVars, setupVars>>

Keys == {"KEY_P", "KEY_KPADD", "KEY_KPSUB"}

\* the cases of keyPressed that write to the scene
SingleAfterKey(keyCode) ==
    IF keyCode = "KEY_P" THEN ~renderSingleScenePart ELSE renderSingleScenePart

IndexAfterKey(keyCode) ==
    IF keyCode = "KEY_KPADD"
        THEN IF scenePartIndex < Len(meshes) THEN scenePartIndex + 1 ELSE 0
    ELSE IF keyCode = "KEY_KPSUB"
        THEN IF scenePartIndex > 0 THEN scenePartIndex - 1 ELSE Len(meshes) - 1
    ELSE scenePartIndex

\* VulkanExample::keyPressed, with its call of reBuildCommandBuffers
KeyPressed(keyCode) ==
    /\ ~fatal
    /\ scenePc = "ready"
    /\ renderSingleScenePart' = SingleAfterKey(keyCode)
    /\ scenePartIndex' = IndexAfterKey(keyCode)
    /\ BuildCommandBuffersWith(SingleAfterKey(keyCode), IndexAfterKey(keyCode))
    /\ UNCHANGED <<scenePc, materials, meshes, frameVars, setupVars>>

InitScene ==
    /\ scenePc = "loadMaterials"
    /\ materials = <<>>
    /\ meshes = <<>>
    /\ renderSingleScenePart = FALSE
    /\ scenePartIndex = 0
    /\ bgMeshIds = <<>>
    /\ alphaMeshIds = <<>>
    /\ nonAlphaMeshIds = <<>>
    /\ drawn = <<>>
    /\ FrameIdle
    /\ SetupIdle
    /\ fatal = FALSE

NextScene ==
    \/ LoadMaterials
    \/ LoadMeshes
    \/ BuildCommandBuffers
    \/ \E keyCode \in Keys : KeyPressed(keyCode)

SpecScene == InitScene /\ [][NextScene]_vars

(***************************************************************************)
(* Claims about the scene                                                  *)
(***************************************************************************)
\* the last render has run to its end
Rendered == scenePc = "ready" /\ ~fatal

\* C29 as claimed: with at least one mesh, whatever keys were pressed,
\* scenePartIndex is the index of a mesh, and a render in single-part mode
\* draws exactly one mesh.
C29_ScenePartIndexValid ==
    scenePc = "ready" =>
        /\ 0 <= scenePartIndex /\ scenePartIndex < Len(meshes)
        /\ (Rendered /\ renderSingleScenePart) => Len(drawn) = 1

\* the vector of the last render mesh i was put in
BucketOf(i) ==
    IF i \in Range(alphaMeshIds) THEN "alpha"
    ELSE IF i \in Range(bgMeshIds) THEN "bg"
    ELSE "nonAlpha"

\* C30 as claimed: every mesh render draws is in the alpha vector exactly
\* when its material has the blending pipeline, in the background vector
\* exactly when it has the bg pipeline, and in the standard vector exactly
\* when it has the solid pipeline.
C30_BucketAgreesWithPipeline ==
    Rendered =>
        \A i \in Range(drawn) :
            /\ BucketOf(i) = "alpha" <=> MeshMaterial(i).pipeline = "blending"
            /\ BucketOf(i) = "bg" <=> MeshMaterial(i).pipeline = "bg"
            /\ BucketOf(i) = "nonAlpha" <=> MeshMaterial(i).pipeline = "solid"

Contains(name, word) == \E k \in DOMAIN name : name[k] = word

\* the place in the draw order of a mesh by the words of its material's
\* name: background ("mask") first, standard next, alpha-blended ("alpha") last
DrawRank(i) ==
    IF Contains(MeshMaterial(i).name, "alpha") THEN 3
    ELSE IF Contains(MeshMaterial(i).name, "mask") THEN 1
    ELSE 2

Selected(i) == ~renderSingleScenePart \/ i = scenePartIndex

\* C26 as claimed: render draws every selected mesh exactly once, the
\* background meshes first, then the standard meshes, then the alpha-blended
\* meshes, each group in index order.
C26_ThreeBucketOrder ==
    Rendered =>
        /\ \A i \in 0 .. Len(meshes) - 1 :
            Cardinality({k \in DOMAIN drawn : drawn[k] = i}) = IF Selected(i) THEN 1 ELSE 0
        /\ \A j, k \in DOMAIN drawn :
            j < k => \/ DrawRank(drawn[j]) < DrawRank(drawn[k])
                     \/ /\ DrawRank(drawn[j]) = DrawRank(drawn[k])
                        /\ drawn[j] < drawn[k]

====
